---------------------------- MODULE Spec2Model ----------------------------
(***************************************************************************)
(* Model of the cubloc-basic language server's validation pass            *)
(* (src/source/server/server.js).  A document is a sequence of lines;     *)
(* lines and keywords are strings, indexed from 0 as in the source.       *)
(* A validation pass (validateText) walks the lines, keeps a block stack  *)
(* and appends diagnostics; at the end of the document it drains the      *)
(* stack and publishes the list.                                          *)
(***************************************************************************)
EXTENDS Integers, Sequences, FiniteSets, TLC

VARIABLES
    lines,        \* validateText: the lines of the document walked so far
    stack,        \* validateText: the block stack
    diagnostics,  \* validateText: the diagnostics appended so far
    pc,           \* validateText: "lines" inside the for loop, "done" after sendDiagnostics
    published,    \* the list handed to connection.sendDiagnostics
    stackBefore,  \* history: the stack before the last line walked
    diagsBefore,  \* history: Len(diagnostics) before the last line walked (before the drain, once done)
    documents,    \* server: the Map of cached texts, uri -> text
    sentDiagnostics, \* client: the list last received for each uri
    outbox,       \* server: the sendDiagnostics calls of the last handler run
    hoverResult,  \* server: the answer of the last hover request
    lastEvent,    \* history: the last notification or request handled
    latest,       \* history: for each uri, the text of its last open/change, or that it closed
    validated,    \* history: for each text validated so far, the first list published for it
    transpileTimer, \* extension: the pending setTimeout callback, with what it closed over
    transpileController, \* extension: the AbortController last created, 0 for undefined
    aborted,      \* extension: the controllers whose abort() was called
    writing,      \* extension: the writeFile calls started and not yet completed
    files,        \* workspace: the content of each generated file, "" when absent
    changes,      \* history: the number of change events delivered to the extension
    latestText,   \* history: for each eligible path, the text of its last change, "" when none
    adapter,      \* debug adapter: nextSeq, contentLength, buffer, terminateTimer, currentSession
    process,      \* debug adapter: its stdin pipe, its stdout, its child processes, the awaits on them
    adapterLog    \* history: frames written, requests dispatched, commands spawned, timers set,
                  \* the last event and the bytes it found buffered

passVars == <<lines, stack, diagnostics, pc, published, stackBefore, diagsBefore>>
serverVars ==
    <<documents, sentDiagnostics, outbox, hoverResult, lastEvent, latest, validated>>
extensionVars ==
    <<transpileTimer, transpileController, aborted, writing, files, changes, latestText>>
adapterVars == <<adapter, process, adapterLog>>
vars ==
    <<lines, stack, diagnostics, pc, published, stackBefore, diagsBefore,
      documents, sentDiagnostics, outbox, hoverResult, lastEvent, latest, validated,
      transpileTimer, transpileController, aborted, writing, files, changes, latestText,
      adapter, process, adapterLog>>

----------------------------------------------------------------------------
(* Characters and strings (JavaScript string primitives used by the code)  *)

UpperLetters == "ABCDEFGHIJKLMNOPQRSTUVWXYZ"
LowerLetters == "abcdefghijklmnopqrstuvwxyz"
Digits == "0123456789"

\* line[i] with a 0-based index; "" stands for undefined (out of range)
CharAt(s, i) == IF i >= 0 /\ i < Len(s) THEN SubSeq(s, i + 1, i + 1) ELSE ""

\* s.slice(a, b) for 0 <= a, b
slice(s, a, b) ==
    LET e == IF b > Len(s) THEN Len(s) ELSE b
    IN  IF a >= e THEN "" ELSE SubSeq(s, a + 1, e)

\* the characters of a string, as a set
CharsOf(s) == {SubSeq(s, k, k) : k \in 1..Len(s)}

UpperSet == CharsOf(UpperLetters)
LowerSet == CharsOf(LowerLetters)
DigitSet == CharsOf(Digits)

\* the upper-case letter of each lower-case letter
UpperOf ==
    [ch \in LowerSet |->
        LET k == CHOOSE j \in 1..Len(LowerLetters) : SubSeq(LowerLetters, j, j) = ch
        IN  SubSeq(UpperLetters, k, k)]

\* the value of each decimal digit
DigitValue ==
    [ch \in DigitSet |-> (CHOOSE j \in 1..Len(Digits) : SubSeq(Digits, j, j) = ch) - 1]

IsUpper(ch) == ch \in UpperSet
IsLower(ch) == ch \in LowerSet
IsDigit(ch) == ch \in DigitSet
\* /[A-Za-z_]/
IsWordStart(ch) == IsUpper(ch) \/ IsLower(ch) \/ ch = "_"
\* /[A-Za-z0-9_]/
IsWordChar(ch) == IsWordStart(ch) \/ IsDigit(ch)
\* /\s/
IsSpace(ch) == ch \in {" ", "\t"}

UpperChar(ch) == IF IsLower(ch) THEN UpperOf[ch] ELSE ch

RECURSIVE toUpperCase(_)
toUpperCase(s) ==
    IF Len(s) = 0 THEN ""
    ELSE UpperChar(SubSeq(s, 1, 1)) \o toUpperCase(SubSeq(s, 2, Len(s)))

RECURSIVE trimStart(_)
trimStart(s) ==
    IF Len(s) > 0 /\ IsSpace(SubSeq(s, 1, 1)) THEN trimStart(SubSeq(s, 2, Len(s))) ELSE s

RECURSIVE trimEnd(_)
trimEnd(s) ==
    IF Len(s) > 0 /\ IsSpace(SubSeq(s, Len(s), Len(s)))
    THEN trimEnd(SubSeq(s, 1, Len(s) - 1)) ELSE s

trim(s) == trimEnd(trimStart(s))

\* s.indexOf(ch), -1 when absent
indexOf(s, ch) ==
    IF \E k \in 0..(Len(s) - 1) : CharAt(s, k) = ch
    THEN CHOOSE k \in 0..(Len(s) - 1) :
            CharAt(s, k) = ch /\ \A j \in 0..(k - 1) : CharAt(s, j) # ch
    ELSE -1

----------------------------------------------------------------------------
(* Tables                                                                  *)

BLOCK_ENDINGS ==
    ("IF" :> "End If") @@ ("FOR" :> "Next") @@ ("DO" :> "Loop") @@
    ("WHILE" :> "Wend") @@ ("SUB" :> "End Sub") @@
    ("FUNCTION" :> "End Function") @@ ("SELECT" :> "End Select") @@
    ("TYPE" :> "End Type") @@ ("WITH" :> "End With")

KEYWORD_TITLE ==
    ("IF" :> "If") @@ ("THEN" :> "Then") @@ ("ELSE" :> "Else") @@
    ("ELSEIF" :> "ElseIf") @@ ("ENDIF" :> "End If") @@ ("FOR" :> "For") @@
    ("TO" :> "To") @@ ("STEP" :> "Step") @@ ("NEXT" :> "Next") @@
    ("DO" :> "Do") @@ ("LOOP" :> "Loop") @@ ("WHILE" :> "While") @@
    ("WEND" :> "Wend") @@ ("UNTIL" :> "Until") @@ ("SUB" :> "Sub") @@
    ("FUNCTION" :> "Function") @@ ("TYPE" :> "Type") @@ ("WITH" :> "With") @@
    ("SELECT" :> "Select") @@ ("END" :> "End") @@ ("GOTO" :> "GoTo") @@
    ("GOSUB" :> "GoSub") @@ ("RETURN" :> "Return") @@ ("DIM" :> "Dim") @@
    ("INPUT" :> "Input") @@ ("OUTPUT" :> "Output") @@ ("OUT" :> "Out") @@
    ("DEBUG" :> "Debug") @@ ("DELAY" :> "Delay") @@ ("PRINT" :> "Print") @@
    ("LET" :> "Let") @@ ("IN" :> "In") @@ ("CONST" :> "Const") @@
    ("OPTION" :> "Option") @@ ("DECLARE" :> "Declare") @@
    ("PUBLIC" :> "Public") @@ ("PRIVATE" :> "Private") @@
    ("SHARED" :> "Shared") @@ ("STATIC" :> "Static") @@
    ("GLOBAL" :> "Global") @@ ("LOCAL" :> "Local") @@ ("BYVAL" :> "ByVal") @@
    ("BYREF" :> "ByRef") @@ ("ALIAS" :> "Alias") @@ ("LIB" :> "Lib")

formatKeyword(word) ==
    IF word \in DOMAIN KEYWORD_TITLE THEN KEYWORD_TITLE[word] ELSE word

\* BLOCK_ENDINGS[type] || "End"
blockEnding(type) ==
    IF type \in DOMAIN BLOCK_ENDINGS THEN BLOCK_ENDINGS[type] ELSE "End"

makeRange(line, start, end) ==
    [start |-> [line |-> line, character |-> start],
     end   |-> [line |-> line, character |-> end]]

Diagnostic(severity, range, message) ==
    [severity |-> severity, range |-> range, message |-> message,
     source |-> "cubloc-basic"]

tokenRange(lineNumber, token) ==
    makeRange(lineNumber, token.index, token.index + token.length)

----------------------------------------------------------------------------
(* Tokenizer                                                               *)

\* a faulty word scan: the word continues over letters and underscores only
RECURSIVE wordEndAtLetters(_, _)
wordEndAtLetters(line, i) ==
    IF i < Len(line) /\ IsWordStart(CharAt(line, i))
    THEN wordEndAtLetters(line, i + 1) ELSE i

RECURSIVE wordEnd(_, _)
wordEnd(line, i) ==
    IF i < Len(line) /\ IsWordChar(CharAt(line, i)) THEN wordEnd(line, i + 1) ELSE i

RECURSIVE getTokensFrom(_, _, _, _)
getTokensFrom(line, i, inString, tokens) ==
    IF i >= Len(line) THEN tokens
    ELSE LET ch == CharAt(line, i) IN
         IF inString THEN
            IF ch = "\"" THEN
               IF CharAt(line, i + 1) = "\""
               THEN getTokensFrom(line, i + 2, TRUE, tokens)
               ELSE getTokensFrom(line, i + 1, FALSE, tokens)
            ELSE getTokensFrom(line, i + 1, TRUE, tokens)
         ELSE IF ch = "\"" THEN getTokensFrom(line, i + 1, TRUE, tokens)
         ELSE IF ch = "'" THEN tokens
         ELSE IF IsWordStart(ch) THEN
            LET e == wordEnd(line, i + 1)
                word == toUpperCase(slice(line, i, e))
            IN  IF word = "REM" THEN tokens
                ELSE getTokensFrom(line, e, FALSE,
                        Append(tokens, [text |-> word, index |-> i, length |-> e - i]))
         ELSE getTokensFrom(line, i + 1, FALSE, tokens)

\* a faulty tokenizer: offsets counted from 1
getTokensOneBased(line) ==
    LET tokens == getTokensFrom(line, 0, FALSE, <<>>)
    IN  [k \in 1..Len(tokens) |-> [tokens[k] EXCEPT !.index = @ + 1]]

getTokens(line) == getTokensFrom(line, 0, FALSE, <<>>)

\* tokens[i]?.text with a 0-based index; "" stands for undefined
tokenText(tokens, i) == IF i >= 0 /\ i < Len(tokens) THEN tokens[i + 1].text ELSE ""

\* tokens.findIndex((token) => token.text === text)
\* a faulty search: the index of the last token with the text
findLastIndex(tokens, text) ==
    IF \E k \in 1..Len(tokens) : tokens[k].text = text
    THEN (CHOOSE k \in 1..Len(tokens) :
            tokens[k].text = text /\ \A j \in (k + 1)..Len(tokens) : tokens[j].text # text) - 1
    ELSE -1

findIndex(tokens, text) ==
    IF \E k \in 1..Len(tokens) : tokens[k].text = text
    THEN (CHOOSE k \in 1..Len(tokens) :
            tokens[k].text = text /\ \A j \in 1..(k - 1) : tokens[j].text # text) - 1
    ELSE -1

----------------------------------------------------------------------------
(* Comment stripping                                                       *)

\* the index of the first single quote outside every string literal, else line.length
RECURSIVE quoteCommentIndex(_, _, _)
quoteCommentIndex(line, i, inString) ==
    IF i >= Len(line) THEN Len(line)
    ELSE LET ch == CharAt(line, i) IN
         IF inString THEN
            IF ch = "\"" THEN
               IF CharAt(line, i + 1) = "\""
               THEN quoteCommentIndex(line, i + 2, TRUE)
               ELSE quoteCommentIndex(line, i + 1, FALSE)
            ELSE quoteCommentIndex(line, i + 1, TRUE)
         ELSE IF ch = "\"" THEN quoteCommentIndex(line, i + 1, TRUE)
         ELSE IF ch = "'" THEN i
         ELSE quoteCommentIndex(line, i + 1, FALSE)

\* /\bREM\b/i at offset i of the line
remAt(line, i) ==
    /\ i + 3 <= Len(line)
    /\ toUpperCase(slice(line, i, i + 3)) = "REM"
    /\ ~IsWordChar(CharAt(line, i - 1))
    /\ ~IsWordChar(CharAt(line, i + 3))

\* /\bREM\b/i.exec(line): the index of the first match, -1 when there is none
remMatchIndex(line) ==
    IF \E i \in 0..(Len(line) - 1) : remAt(line, i)
    THEN CHOOSE i \in 0..(Len(line) - 1) :
            remAt(line, i) /\ \A j \in 0..(i - 1) : ~remAt(line, j)
    ELSE -1

stripComments(line) ==
    LET quoteIndex == quoteCommentIndex(line, 0, FALSE)
        remIndex == remMatchIndex(line)
        commentIndex == IF remIndex # -1 /\ remIndex < quoteIndex THEN remIndex ELSE quoteIndex
    IN  slice(line, 0, commentIndex)

----------------------------------------------------------------------------
(* Block stack                                                             *)

\* a frame of the block stack; conditionPlacement and conditionKind are
\* "undefined" until handleDoLine attaches a condition
Frame(type, token, lineNumber) ==
    [type |-> type, line |-> lineNumber, character |-> token.index,
     length |-> token.length,
     conditionPlacement |-> "undefined", conditionKind |-> "undefined"]

\* stack.push(entry); the pass state is the pair (stack, diagnostics)
pushBlock(ctx, type, token, lineNumber) ==
    [ctx EXCEPT !.stack = Append(@, Frame(type, token, lineNumber))]

\* the 0-based index of the nearest frame of the type, searching from the top; -1 when none
findOpenBlock(stk, type) ==
    IF \E i \in 1..Len(stk) : stk[i].type = type
    THEN (CHOOSE i \in 1..Len(stk) :
            stk[i].type = type /\ \A j \in (i + 1)..Len(stk) : stk[j].type # type) - 1
    ELSE -1

\* a faulty search: only the innermost open frame is looked at
hasOpenBlockOnTop(stk, type) == Len(stk) > 0 /\ stk[Len(stk)].type = type

hasOpenBlock(stk, type) == findOpenBlock(stk, type) # -1

\* stack.length = n (n <= stack.length)
setLength(stk, n) == SubSeq(stk, 1, n)

\* stack.pop(): nothing happens on an empty array
pop(stk) == IF Len(stk) = 0 THEN stk ELSE SubSeq(stk, 1, Len(stk) - 1)

\* the loop "for (i = stack.length - 1; i > matchIndex; i -= 1)" of popBlock and
\* popDoBlock: one diagnostic per frame above the match, top first
RECURSIVE missingBefore(_, _, _, _)
missingBefore(stk, i, matchIndex, closerTitle) ==
    IF i <= matchIndex THEN <<>>
    ELSE LET missing == stk[i + 1] IN
         <<Diagnostic("Error",
              makeRange(missing.line, missing.character, missing.character + missing.length),
              "Missing " \o blockEnding(missing.type) \o " before " \o closerTitle \o ".")>>
         \o missingBefore(stk, i - 1, matchIndex, closerTitle)

withoutMatching(token, type, lineNumber) ==
    Diagnostic("Error", tokenRange(lineNumber, token),
               formatKeyword(token.text) \o " without matching " \o formatKeyword(type) \o ".")

popBlock(ctx, type, token, lineNumber) ==
    LET stk == ctx.stack
        matchIndex == findOpenBlock(stk, type)
    IN  IF Len(stk) = 0
        THEN [ctx EXCEPT !.diagnostics = Append(@, withoutMatching(token, type, lineNumber))]
        ELSE IF stk[Len(stk)].type = type
        THEN [ctx EXCEPT !.stack = pop(stk)]
        ELSE IF matchIndex = -1
        THEN [ctx EXCEPT !.diagnostics = Append(@, withoutMatching(token, type, lineNumber))]
        ELSE [stack |-> pop(setLength(stk, matchIndex)),
              diagnostics |-> ctx.diagnostics
                  \o missingBefore(stk, Len(stk) - 1, matchIndex, formatKeyword(token.text))]

loopWithoutDo(token, lineNumber) ==
    Diagnostic("Error", tokenRange(lineNumber, token), "Loop without matching Do.")

\* condition: the record parseLoopCondition returned, NoCondition for null
popDoBlock(ctx, token, lineNumber, condition) ==
    LET stk == ctx.stack
        matchIndex == findOpenBlock(stk, "DO")
    IN  IF Len(stk) = 0
        THEN [ctx EXCEPT !.diagnostics = Append(@, loopWithoutDo(token, lineNumber))]
        ELSE IF matchIndex = -1
        THEN [ctx EXCEPT !.diagnostics = Append(@, loopWithoutDo(token, lineNumber))]
        ELSE LET doBlock == stk[matchIndex + 1] IN
             [stack |-> pop(setLength(stk, matchIndex)),
              diagnostics |-> ctx.diagnostics
                  \o missingBefore(stk, Len(stk) - 1, matchIndex, "Loop")
                  \o (IF ~condition.null /\ doBlock.conditionPlacement = "do"
                      THEN <<Diagnostic("Error", tokenRange(lineNumber, token),
                               "Loop cannot include a condition when Do already has While/Until.")>>
                      ELSE <<>>)]

----------------------------------------------------------------------------
(* DO / LOOP clauses                                                       *)

\* parseLoopCondition returning null
NoCondition == [null |-> TRUE, kind |-> "", missingExpression |-> FALSE]

Condition(kind, missingExpression) ==
    [null |-> FALSE, kind |-> kind, missingExpression |-> missingExpression]

\* a faulty scan: the token at startIndex is not looked at
lastTokenIndexAfterFirst(tokens, startIndex, endIndex, text) ==
    IF \E i \in (startIndex + 1)..(endIndex - 1) : tokens[i + 1].text = text
    THEN CHOOSE i \in (startIndex + 1)..(endIndex - 1) :
            tokens[i + 1].text = text
            /\ \A j \in (i + 1)..(endIndex - 1) : tokens[j + 1].text # text
    ELSE -1

\* the 0-based index of the last token of tokens[startIndex .. endIndex) with the text; -1 when none
lastTokenIndex(tokens, startIndex, endIndex, text) ==
    IF \E i \in startIndex..(endIndex - 1) : tokens[i + 1].text = text
    THEN CHOOSE i \in startIndex..(endIndex - 1) :
            tokens[i + 1].text = text
            /\ \A j \in (i + 1)..(endIndex - 1) : tokens[j + 1].text # text
    ELSE -1

min(a, b) == IF a < b THEN a ELSE b
max(a, b) == IF a > b THEN a ELSE b

\* returns the condition and the diagnostics pushed (none or one)
parseLoopCondition(tokens, startIndex, endIndex, lineNumber, context) ==
    LET immediateIsWhile ==
            /\ startIndex < Len(tokens)
            /\ tokens[startIndex + 1].text \in {"WHILE", "UNTIL"}
        w == lastTokenIndex(tokens, startIndex, endIndex, "WHILE")
        u == lastTokenIndex(tokens, startIndex, endIndex, "UNTIL")
        title == formatKeyword(context)
    IN  IF ~immediateIsWhile /\ (w # -1 \/ u # -1)
        THEN LET misplaced == IF w # -1 THEN tokens[w + 1] ELSE tokens[u + 1] IN
             [condition |-> Condition("MISPLACED", TRUE),
              diagnostics |-> <<Diagnostic("Error", tokenRange(lineNumber, misplaced),
                  title \o " While/Until must immediately follow " \o title \o ".")>>]
        ELSE IF w # -1 /\ u # -1
        THEN LET whileToken == tokens[w + 1]
                 untilToken == tokens[u + 1] IN
             [condition |-> Condition("BOTH", TRUE),
              diagnostics |-> <<Diagnostic("Error",
                  makeRange(lineNumber,
                      min(whileToken.index, untilToken.index),
                      max(whileToken.index + whileToken.length,
                          untilToken.index + untilToken.length)),
                  title \o " cannot use both While and Until.")>>]
        ELSE IF ~immediateIsWhile
        THEN [condition |-> NoCondition, diagnostics |-> <<>>]
        ELSE LET token == tokens[startIndex + 1] IN
             IF token.index = tokens[endIndex].index
             THEN [condition |-> Condition(token.text, TRUE),
                   diagnostics |-> <<Diagnostic("Error", tokenRange(lineNumber, token),
                       title \o " " \o formatKeyword(token.text) \o " requires a condition.")>>]
             ELSE [condition |-> Condition(token.text, FALSE), diagnostics |-> <<>>]

handleDoLine(ctx, tokens, lineNumber) ==
    LET parsed == parseLoopCondition(tokens, 1, Len(tokens), lineNumber, "DO")
        condition == parsed.condition
        ctx1 == [ctx EXCEPT !.diagnostics = @ \o parsed.diagnostics]
        pushed == pushBlock(ctx1, "DO", tokens[1], lineNumber)
        n == Len(pushed.stack)
    IN  IF ~condition.null /\ condition.missingExpression THEN ctx1
        ELSE IF ~condition.null
        THEN [pushed EXCEPT !.stack[n].conditionPlacement = "do",
                            !.stack[n].conditionKind = condition.kind]
        ELSE pushed

handleLoopLine(ctx, tokens, lineNumber) ==
    LET parsed == parseLoopCondition(tokens, 1, Len(tokens), lineNumber, "LOOP")
        condition == parsed.condition
        ctx1 == [ctx EXCEPT !.diagnostics = @ \o parsed.diagnostics]
    IN  IF ~condition.null /\ condition.missingExpression THEN ctx1
        ELSE popDoBlock(ctx1, tokens[1], lineNumber, condition)

----------------------------------------------------------------------------
(* Shared text utilities of the statement validators                       *)

\* parseIntegerLiteral returning null
NoLiteral == [null |-> TRUE, value |-> 0]

RECURSIVE digitsValue(_, _)
digitsValue(text, acc) ==
    IF Len(text) = 0 THEN acc
    ELSE digitsValue(SubSeq(text, 2, Len(text)),
                     acc * 10 + DigitValue[SubSeq(text, 1, 1)])

\* /^\d+$/ then Number.parseInt(text, 10)
parseIntegerLiteral(text) ==
    IF Len(text) > 0 /\ \A k \in 0..(Len(text) - 1) : IsDigit(CharAt(text, k))
    THEN [null |-> FALSE, value |-> digitsValue(text, 0)]
    ELSE NoLiteral

\* parseIdentifier returning null
NoIdentifier == [null |-> TRUE, name |-> "", start |-> 0, end |-> 0]

parseIdentifier(line, startIndex) ==
    IF IsWordStart(CharAt(line, startIndex))
    THEN LET e == wordEnd(line, startIndex + 1) IN
         [null |-> FALSE, name |-> slice(line, startIndex, e),
          start |-> startIndex, end |-> e]
    ELSE NoIdentifier

RECURSIVE skipWhitespace(_, _)
skipWhitespace(line, index) ==
    IF index < Len(line) /\ IsSpace(CharAt(line, index))
    THEN skipWhitespace(line, index + 1) ELSE index

RECURSIVE topLevelCommaFrom(_, _, _, _)
topLevelCommaFrom(line, i, depth, inString) ==
    IF i >= Len(line) THEN -1
    ELSE LET ch == CharAt(line, i) IN
         IF inString THEN
            IF ch = "\"" THEN
               IF CharAt(line, i + 1) = "\""
               THEN topLevelCommaFrom(line, i + 2, depth, TRUE)
               ELSE topLevelCommaFrom(line, i + 1, depth, FALSE)
            ELSE topLevelCommaFrom(line, i + 1, depth, TRUE)
         ELSE IF ch = "\"" THEN topLevelCommaFrom(line, i + 1, depth, TRUE)
         ELSE IF ch = "(" THEN topLevelCommaFrom(line, i + 1, depth + 1, FALSE)
         ELSE IF ch = ")" THEN topLevelCommaFrom(line, i + 1, max(0, depth - 1), FALSE)
         ELSE IF ch = "," /\ depth = 0 THEN i
         ELSE topLevelCommaFrom(line, i + 1, depth, FALSE)

\* a faulty search: the first comma from startIndex, nested or not
findAnyComma(line, startIndex) ==
    IF \E k \in startIndex..(Len(line) - 1) : CharAt(line, k) = ","
    THEN CHOOSE k \in startIndex..(Len(line) - 1) :
            CharAt(line, k) = "," /\ \A j \in startIndex..(k - 1) : CharAt(line, j) # ","
    ELSE -1

findTopLevelComma(line, startIndex) == topLevelCommaFrom(line, startIndex, 0, FALSE)

RECURSIVE matchingParenFrom(_, _, _, _)
matchingParenFrom(line, i, depth, inString) ==
    IF i >= Len(line) THEN -1
    ELSE LET ch == CharAt(line, i) IN
         IF inString THEN
            IF ch = "\"" THEN
               IF CharAt(line, i + 1) = "\""
               THEN matchingParenFrom(line, i + 2, depth, TRUE)
               ELSE matchingParenFrom(line, i + 1, depth, FALSE)
            ELSE matchingParenFrom(line, i + 1, depth, TRUE)
         ELSE IF ch = "\"" THEN matchingParenFrom(line, i + 1, depth, TRUE)
         ELSE IF ch = "(" THEN matchingParenFrom(line, i + 1, depth + 1, FALSE)
         ELSE IF ch = ")" THEN
            IF depth = 0 THEN i ELSE matchingParenFrom(line, i + 1, depth - 1, FALSE)
         ELSE matchingParenFrom(line, i + 1, depth, FALSE)

findMatchingParen(line, openIndex) == matchingParenFrom(line, openIndex + 1, 0, FALSE)

\* cleanLine.slice(keywordToken.index + keywordToken.length).trim()
remainderAfter(keywordToken, cleanLine) ==
    trim(slice(cleanLine, keywordToken.index + keywordToken.length, Len(cleanLine)))

keywordError(keywordToken, lineNumber, message) ==
    Diagnostic("Error", tokenRange(lineNumber, keywordToken), message)

outOfPortRange(literal) == ~literal.null /\ (literal.value < 0 \/ literal.value > 255)

----------------------------------------------------------------------------
(* Statement validators: each returns the diagnostics it pushes            *)

validateOutStatement(keywordToken, cleanLine, lineNumber) ==
    LET remainder == remainderAfter(keywordToken, cleanLine)
        commaIndex == indexOf(remainder, ",")
        portText == trim(slice(remainder, 0, commaIndex))
        valueText == trim(slice(remainder, commaIndex + 1, Len(remainder)))
        portLiteral == parseIntegerLiteral(portText)
        valueLiteral == parseIntegerLiteral(valueText)
    IN  IF remainder = ""
        THEN <<keywordError(keywordToken, lineNumber, "Out requires port, value.")>>
        ELSE IF commaIndex = -1
        THEN <<keywordError(keywordToken, lineNumber, "Out requires port, value (missing comma).")>>
        ELSE IF portText = "" \/ valueText = ""
        THEN <<keywordError(keywordToken, lineNumber, "Out requires port, value.")>>
        ELSE (IF outOfPortRange(portLiteral)
              THEN <<keywordError(keywordToken, lineNumber, "Out port must be 0 to 255.")>>
              ELSE <<>>)
          \o (IF ~valueLiteral.null /\ valueLiteral.value # 0 /\ valueLiteral.value # 1
              THEN <<keywordError(keywordToken, lineNumber, "Out value must be 0 or 1.")>>
              ELSE <<>>)

validateDebugStatement(keywordToken, cleanLine, lineNumber) ==
    IF remainderAfter(keywordToken, cleanLine) = ""
    THEN <<keywordError(keywordToken, lineNumber, "Debug requires data.")>>
    ELSE <<>>

validateInputStatement(keywordToken, cleanLine, lineNumber) ==
    LET remainder == remainderAfter(keywordToken, cleanLine) IN
    IF remainder = ""
    THEN <<keywordError(keywordToken, lineNumber, "Input requires port value.")>>
    ELSE IF outOfPortRange(parseIntegerLiteral(remainder))
    THEN <<keywordError(keywordToken, lineNumber, "Input port must be 0 to 255.")>>
    ELSE <<>>

validateOutputStatement(keywordToken, cleanLine, lineNumber) ==
    LET remainder == remainderAfter(keywordToken, cleanLine) IN
    IF remainder = ""
    THEN <<keywordError(keywordToken, lineNumber, "Output requires port value.")>>
    ELSE IF outOfPortRange(parseIntegerLiteral(remainder))
    THEN <<keywordError(keywordToken, lineNumber, "Output port must be 0 to 255.")>>
    ELSE <<>>

validateDelayStatement(keywordToken, cleanLine, lineNumber) ==
    LET remainder == remainderAfter(keywordToken, cleanLine)
        literal == parseIntegerLiteral(remainder)
    IN  IF remainder = ""
        THEN <<keywordError(keywordToken, lineNumber, "Delay requires milliseconds value.")>>
        ELSE IF ~literal.null /\ literal.value < 0
        THEN <<keywordError(keywordToken, lineNumber, "Delay value must be non-negative.")>>
        ELSE <<>>

\* the body of the loop of validateInFunctionUsage for one token
inUsageOf(token, line, lineNumber) ==
    LET searchStart == token.index + token.length
        openParenIndex == skipWhitespace(line, searchStart)
        closeParenIndex == findMatchingParen(line, openParenIndex)
        argument == trim(slice(line, openParenIndex + 1, closeParenIndex))
    IN  IF token.text # "IN" THEN <<>>
        ELSE IF openParenIndex >= Len(line) THEN <<>>
        ELSE IF CharAt(line, openParenIndex) # "(" THEN <<>>
        ELSE IF closeParenIndex = -1
        THEN <<keywordError(token, lineNumber, "In requires a closing parenthesis.")>>
        ELSE IF argument = ""
        THEN <<keywordError(token, lineNumber, "In requires a port value.")>>
        ELSE IF outOfPortRange(parseIntegerLiteral(argument))
        THEN <<keywordError(token, lineNumber, "In port must be 0 to 255.")>>
        ELSE <<>>

RECURSIVE inUsageFrom(_, _, _, _)
inUsageFrom(tokens, k, line, lineNumber) ==
    IF k > Len(tokens) THEN <<>>
    ELSE inUsageOf(tokens[k], line, lineNumber) \o inUsageFrom(tokens, k + 1, line, lineNumber)

validateInFunctionUsage(tokens, line, lineNumber) == inUsageFrom(tokens, 1, line, lineNumber)

\* /^\s*AS\b/i.exec(remaining): the length of the match, -1 when there is none
asMatchLength(remaining) ==
    LET k == skipWhitespace(remaining, 0) IN
    IF /\ toUpperCase(slice(remaining, k, k + 2)) = "AS"
       /\ ~IsWordChar(CharAt(remaining, k + 2))
    THEN k + 2 ELSE -1

validateDimStatement(keywordToken, line, lineNumber) ==
    LET startIndex == keywordToken.index + keywordToken.length
        commaIndex == findTopLevelComma(line, startIndex)
        cursor1 == skipWhitespace(line, startIndex)
        identifier == parseIdentifier(line, cursor1)
        cursor2 == skipWhitespace(line, identifier.end)
        hasParen == CharAt(line, cursor2) = "("
        closeParen == findMatchingParen(line, cursor2)
        cursor3 == IF hasParen THEN closeParen + 1 ELSE cursor2
        asLength == asMatchLength(slice(line, cursor3, Len(line)))
        cursor4 == skipWhitespace(line, cursor3 + asLength)
        typeIdentifier == parseIdentifier(line, cursor4)
        type == toUpperCase(typeIdentifier.name)
        cursor5 == skipWhitespace(line, typeIdentifier.end)
        cursor6 == skipWhitespace(line, cursor5 + 1)
        lengthIdentifier == parseIdentifier(line, cursor6)
        lengthValue == parseIntegerLiteral(
                           slice(line, lengthIdentifier.start, lengthIdentifier.end))
        at(c) == makeRange(lineNumber, c, c + 1)
    IN  IF commaIndex # -1
        THEN <<keywordError(keywordToken, lineNumber, "Dim does not allow multiple declarations.")>>
        ELSE IF cursor1 >= Len(line)
        THEN <<keywordError(keywordToken, lineNumber, "Dim requires variable name.")>>
        ELSE IF identifier.null
        THEN <<Diagnostic("Error", at(cursor1), "Dim requires variable name.")>>
        ELSE IF hasParen /\ closeParen = -1
        THEN <<Diagnostic("Error", at(cursor2), "Dim array requires closing parenthesis.")>>
        ELSE IF asLength = -1
        THEN <<keywordError(keywordToken, lineNumber, "Dim requires As <Type>.")>>
        ELSE IF typeIdentifier.null
        THEN <<Diagnostic("Error", at(cursor4), "Dim As requires Type.")>>
        ELSE IF type \notin {"BYTE", "INTEGER", "LONG", "SINGLE", "STRING"}
        THEN <<Diagnostic("Error",
                 makeRange(lineNumber, typeIdentifier.start, typeIdentifier.end),
                 "Invalid Dim Type.")>>
        ELSE IF CharAt(line, cursor5) # "*" THEN <<>>
        ELSE IF type # "STRING"
        THEN <<Diagnostic("Error", at(cursor5), "Only String may use * length.")>>
        ELSE IF lengthIdentifier.null
        THEN <<Diagnostic("Error", at(cursor6), "String length required after *.")>>
        ELSE IF lengthValue.null
        THEN <<Diagnostic("Error",
                 makeRange(lineNumber, lengthIdentifier.start, lengthIdentifier.end),
                 "String length must be a number.")>>
        ELSE <<>>

----------------------------------------------------------------------------
(* Line dispatch                                                           *)

pushError(ctx, token, lineNumber, message) ==
    [ctx EXCEPT !.diagnostics = Append(@, keywordError(token, lineNumber, message))]

\* the statement validators reached when no block keyword returned
validateStatements(ctx, tokens, lineNumber, cleanLine) ==
    LET first == tokens[1].text
        keyword == tokens[1]
    IN  [ctx EXCEPT !.diagnostics = @
            \o (IF first = "OUT" THEN validateOutStatement(keyword, cleanLine, lineNumber) ELSE <<>>)
            \o (IF first = "DEBUG" THEN validateDebugStatement(keyword, cleanLine, lineNumber) ELSE <<>>)
            \o (IF first = "INPUT" THEN validateInputStatement(keyword, cleanLine, lineNumber) ELSE <<>>)
            \o (IF first = "OUTPUT" THEN validateOutputStatement(keyword, cleanLine, lineNumber) ELSE <<>>)
            \o (IF first = "DELAY" THEN validateDelayStatement(keyword, cleanLine, lineNumber) ELSE <<>>)
            \o (IF first = "DIM" THEN validateDimStatement(keyword, cleanLine, lineNumber) ELSE <<>>)
            \o validateInFunctionUsage(tokens, cleanLine, lineNumber)]

\* tokens is not empty
validateSyntaxLine(ctx, tokens, lineNumber, line) ==
    LET first == tokenText(tokens, 0)
        second == tokenText(tokens, 1)
        cleanLine == stripComments(line)
        thenIndex == findIndex(tokens, "THEN")
        loopIndex == findIndex(tokens, "LOOP")
    IN  IF first = "IF" THEN
            IF thenIndex = -1 THEN pushError(ctx, tokens[1], lineNumber, "If without Then.")
            ELSE IF thenIndex = Len(tokens) - 1 THEN pushBlock(ctx, "IF", tokens[1], lineNumber)
            ELSE ctx
        ELSE IF first = "ELSEIF" \/ (first = "ELSE" /\ second = "IF") THEN
            IF ~hasOpenBlock(ctx.stack, "IF")
            THEN pushError(ctx, tokens[1], lineNumber, "ElseIf without matching If.")
            ELSE ctx
        ELSE IF first = "ELSE" THEN
            IF ~hasOpenBlock(ctx.stack, "IF")
            THEN pushError(ctx, tokens[1], lineNumber, "Else without matching If.")
            ELSE ctx
        ELSE IF first = "ENDIF" \/ (first = "END" /\ second = "IF")
        THEN popBlock(ctx, "IF", tokens[1], lineNumber)
        ELSE IF first = "FOR" THEN pushBlock(ctx, "FOR", tokens[1], lineNumber)
        ELSE IF first = "NEXT" THEN popBlock(ctx, "FOR", tokens[1], lineNumber)
        ELSE IF first = "DO" THEN
            IF loopIndex # -1
            THEN handleLoopLine(
                     handleDoLine(ctx, SubSeq(tokens, 1, loopIndex), lineNumber),
                     SubSeq(tokens, loopIndex + 1, Len(tokens)), lineNumber)
            ELSE handleDoLine(ctx, tokens, lineNumber)
        ELSE IF first = "LOOP" THEN handleLoopLine(ctx, tokens, lineNumber)
        ELSE IF first = "WHILE" THEN pushBlock(ctx, "WHILE", tokens[1], lineNumber)
        ELSE IF first = "WEND" THEN popBlock(ctx, "WHILE", tokens[1], lineNumber)
        ELSE IF first \in {"SUB", "FUNCTION", "TYPE", "WITH", "SELECT"}
        THEN pushBlock(ctx, first, tokens[1], lineNumber)
        ELSE IF first = "END" /\ second \in {"SUB", "FUNCTION", "SELECT", "TYPE", "WITH"}
        THEN popBlock(ctx, second, tokens[1], lineNumber)
        ELSE validateStatements(ctx, tokens, lineNumber, cleanLine)

----------------------------------------------------------------------------
(* Documents: a document is at most MaxLines lines, all of one vocabulary  *)

MaxLines == 4

VocabProcedures ==
    {"SUB A", "END SUB", "FUNCTION F", "End Function", "FOR i = 1 TO 10", "NEXT"}

VocabLoops ==
    {"DO", "LOOP", "DO WHILE x > 0", "LOOP UNTIL y < 0", "WHILE x", "WEND"}

VocabClauses ==
    {"DO WHILE 1", "LOOP UNTIL 5 > 3", "DO UNTIL", "LOOP", "DO WHILE x > 0",
     "Do While s = \"a\""}

VocabIf ==
    {"IF x THEN", "END IF", "endif", "IF x THEN y = 1", "ELSE",
     "SELECT CASE x", "END SELECT", ""}

VocabMixed ==
    {"TYPE T", "END TYPE", "WITH w", "END WITH", "  Sub A", "  End Sub", "DO", "LOOP"}

VocabOneLineLoop ==
    {"SUB A", "END SUB", "DO x = x + 1 LOOP UNTIL x > 9", "DO WHILE x LOOP"}

VocabThen ==
    {"IF x", "IF a THEN IF b THEN", "IF x THEN", "IF x THEN y = 1", "END IF"}

VocabElse ==
    {"IF x THEN", "FOR i = 1 TO 3", "ElseIf y THEN", "ELSE IF y THEN", "ELSE"}

VocabOut ==
    {"OUT 300, 1", "OUT 5, 2", "OUT 5, 1", "OUT 256, 7", "Out 255, 0"}

VocabOutOperands ==
    {"OUT x, y + 1", "OUT -1, 1", "OUT 5, -1", "OUT 5"}

VocabOutComma ==
    {"OUT f(1,2)", "OUT f(1,2), 5", "OUT \"a,b\"", "OUT"}

VocabDimLength ==
    {"DIM s AS STRING * 10", "DIM b AS BYTE * 2", "DIM s AS STRING * n",
     "DIM n AS LONG * 4", "DIM s AS STRING"}

VocabDimComma ==
    {"DIM x, y AS INTEGER", "DIM a(2,3) AS BYTE", "Dim a(1), b(2) AS LONG",
     "DIM a(\"x,y\") AS BYTE", "DIM x AS SINGLE"}

VocabDimShape ==
    {"DIM x AS FLOAT", "DIM 1", "DIM a(2 AS BYTE", "DIM x AS", "DIM"}

VocabIn ==
    {"IF IN(300) = 1 THEN", "WHILE IN(999)", "FOR i = IN(300) TO 5",
     "x = IN(300)", "x = IN(5) + IN(y)"}

VocabRem ==
    {"x = IN(\"REM\")", "OUT \"REM\", 1", "OUT 5, 2 ' note", "OUT 5, 2 REM note",
     "x = \"it's\" + IN(300)"}

VocabPorts ==
    {"INPUT 300", "OUTPUT", "DEBUG", "DELAY", "INPUT 7"}

VocabClauseErrors ==
    {"DO x WHILE y", "DO WHILE x UNTIL y", "LOOP x UNTIL y WHILE", "LOOP UNTIL WHILE",
     "DO x UNTIL y LOOP WHILE a UNTIL b"}

VocabStrings ==
    {"t1 = \"a \"\"IF\"\" b\" NEXT", "PRINT \"open IF ' x", "y = 2 rem WEND \"",
     "REMARK = 1 ' \"LOOP", "_a \"b\" c_1 Rem"}

\* padding of a long line: ten and one hundred dashes
Dashes10 == "----------"
Dashes100 ==
    Dashes10 \o Dashes10 \o Dashes10 \o Dashes10 \o Dashes10
        \o Dashes10 \o Dashes10 \o Dashes10 \o Dashes10 \o Dashes10

\* a line of 121 characters with a tab, one of exactly 120, and tabs before
\* a keyword, inside a string literal and inside a comment
VocabHygiene ==
    {"WEND\t' " \o Dashes100 \o Dashes10 \o "----",
     "NEXT ' " \o Dashes100 \o Dashes10 \o "---",
     "\tEND SUB", "s = \"a\tb\" ' c\td"}

VocabDelay ==
    {"DELAY -5", "DELAY 100", "DELAY t * 2", "DELAY   ' wait"}

Vocabularies ==
    {VocabHygiene, VocabDelay, VocabProcedures, VocabLoops, VocabClauses, VocabIf, VocabMixed,
     VocabOneLineLoop, VocabThen, VocabElse, VocabOut, VocabOutOperands,
     VocabOutComma, VocabDimLength, VocabDimComma, VocabDimShape, VocabIn,
     VocabRem, VocabPorts, VocabStrings, VocabClauseErrors}

Lines == UNION Vocabularies

InOneVocabulary(doc) ==
    \E v \in Vocabularies : \A k \in 1..Len(doc) : doc[k] \in v

\* the tokens of every line, computed once per distinct line text
tokensOfLine == [line \in Lines |-> getTokens(line)]

----------------------------------------------------------------------------
(* The validation pass                                                     *)

\* the two whole-line checks of validateText
\* a faulty threshold: a line of exactly 120 characters is reported too
lineHygieneFrom120(line, i) ==
    (IF Len(line) >= 120
     THEN <<Diagnostic("Warning", makeRange(i, 120, Len(line)), "Line exceeds 120 characters.")>>
     ELSE <<>>)
    \o (IF indexOf(line, "\t") # -1
        THEN <<Diagnostic("Information",
                 makeRange(i, indexOf(line, "\t"), indexOf(line, "\t") + 1),
                 "Tab character found; prefer spaces.")>>
        ELSE <<>>)

lineHygiene(line, i) ==
    (IF Len(line) > 120
     THEN <<Diagnostic("Warning", makeRange(i, 120, Len(line)), "Line exceeds 120 characters.")>>
     ELSE <<>>)
    \o (IF indexOf(line, "\t") # -1
        THEN <<Diagnostic("Information",
                 makeRange(i, indexOf(line, "\t"), indexOf(line, "\t") + 1),
                 "Tab character found; prefer spaces.")>>
        ELSE <<>>)

\* one iteration of the for loop of validateText
validateLine(ctx, line, i) ==
    LET tokens == IF line \in Lines THEN tokensOfLine[line] ELSE getTokens(line)
        ctx1 == [ctx EXCEPT !.diagnostics = @ \o lineHygiene(line, i)]
    IN  IF Len(tokens) > 0 THEN validateSyntaxLine(ctx1, tokens, i, line) ELSE ctx1

missingAtEnd(open) ==
    Diagnostic("Error",
        makeRange(open.line, open.character, open.character + open.length),
        "Missing " \o blockEnding(open.type) \o " for " \o formatKeyword(open.type) \o ".")

\* a faulty drain: only the innermost open frame is reported
drainStackTopOnly(stk) ==
    IF Len(stk) = 0 THEN <<>> ELSE <<missingAtEnd(stk[Len(stk)])>>

\* the while loop of validateText: pops every frame, top first, one diagnostic each
RECURSIVE drainStack(_)
drainStack(stk) ==
    IF Len(stk) = 0 THEN <<>>
    ELSE <<missingAtEnd(stk[Len(stk)])>> \o drainStack(pop(stk))

----------------------------------------------------------------------------
(* The server: the text cache, a whole validation pass, and hover          *)

\* text.split(/\r?\n/)
RECURSIVE splitFrom(_, _, _)
splitFrom(text, i, start) ==
    IF i >= Len(text) THEN <<slice(text, start, Len(text))>>
    ELSE IF CharAt(text, i) = "\n"
    THEN <<slice(text, start, IF i > start /\ CharAt(text, i - 1) = "\r" THEN i - 1 ELSE i)>>
            \o splitFrom(text, i + 1, i + 1)
    ELSE splitFrom(text, i + 1, start)

split(text) == splitFrom(text, 0, 0)

\* the inputs: two documents, three texts, hover positions around them
MaxColumn == 11
Uris == {"file:///a.bas", "file:///b.bas"}
Texts == {"", "Out 255, 0\ndelay 100", "IF x THEN\r\ny = in(300)"}
HoverLines == 0..2
HoverColumns == 0..MaxColumn

\* the lines of every text, split once per distinct text
linesOfText == [text \in Texts |-> split(text)]

\* the for loop of validateText over the lines from index i on
RECURSIVE walkLines(_, _, _)
walkLines(ctx, textLines, i) ==
    IF i >= Len(textLines) THEN ctx
    ELSE walkLines(validateLine(ctx, textLines[i + 1], i), textLines, i + 1)

\* a pass over the text that starts from the given stack and diagnostics
passOver(text, ctx) ==
    LET end == walkLines(ctx, linesOfText[text], 0)
    IN  end.diagnostics \o drainStack(end.stack)

\* a faulty pass: the diagnostics array outlives the pass, so a pass appends
\* to the list last sent for the uri
validateTextKeepingList(uri, text) ==
    passOver(text, [stack |-> <<>>,
                    diagnostics |-> IF uri \in DOMAIN sentDiagnostics
                                    THEN sentDiagnostics[uri] ELSE <<>>])

\* validateText: the diagnostics it hands to connection.sendDiagnostics
validateText(uri, text) == passOver(text, [stack |-> <<>>, diagnostics |-> <<>>])

\* Map.set and Map.delete
mapSet(map, key, value) ==
    [k \in DOMAIN map \cup {key} |-> IF k = key THEN value ELSE map[k]]

\* a faulty delete: the entry stays in the Map
mapDeleteNothing(map, key) == map

mapDelete(map, key) == [k \in DOMAIN map \ {key} |-> map[k]]

NoWord == ""

RECURSIVE wordStart(_, _)
wordStart(line, start) ==
    IF start > 0 /\ IsWordChar(CharAt(line, start - 1)) THEN wordStart(line, start - 1)
    ELSE start

\* a faulty lookup key: the word as it is written, not upper-cased
getWordAtAsWritten(line, character) ==
    IF character < 0 \/ character > Len(line) THEN NoWord
    ELSE LET start == wordStart(line, character)
             end == wordEnd(line, character)
             word == slice(line, start, end)
         IN  IF start = end THEN NoWord
             ELSE IF ~IsWordStart(CharAt(word, 0)) THEN NoWord
             ELSE word

\* getWordAt: the upper-cased word at the column, NoWord for null
getWordAt(line, character) ==
    IF character < 0 \/ character > Len(line) THEN NoWord
    ELSE LET start == wordStart(line, character)
             end == wordEnd(line, character)
             word == slice(line, start, end)
         IN  IF start = end THEN NoWord
             ELSE IF ~IsWordStart(CharAt(word, 0)) THEN NoWord
             ELSE toUpperCase(word)

\* the hover table: keyword -> documentation (its first line)
HOVER_DOCS ==
    [k \in {"DEBUG", "DELAY", "DIM", "DO", "LOOP", "IN", "INPUT", "OUT", "OUTPUT",
            "PRINT", "LET", "IF", "FOR"} |->
        CASE k = "DEBUG" -> "**Debug** data"
          [] k = "DELAY" -> "**Delay** n"
          [] k = "DIM" -> "**Dim** name [ (dims) ] **As** type [ * length ]"
          [] k = "DO" -> "**Do** [While|Until cond] ... **Loop** [While|Until cond]"
          [] k = "LOOP" -> "**Loop** [While|Until cond]"
          [] k = "IN" -> "**In**(port)"
          [] k = "INPUT" -> "**Input** port"
          [] k = "OUT" -> "**Out** port, value"
          [] k = "OUTPUT" -> "**Output** port"
          [] k = "PRINT" -> "**Print** data"
          [] k = "LET" -> "**Let** var = expr"
          [] k = "IF" -> "**If** cond **Then** ... [**Else** ...] **End If**"
          [] k = "FOR" -> "**For** var = start **To** end [**Step** n] ... **Next**"]

NoHover == [null |-> TRUE, kind |-> "", value |-> ""]

\* the body of connection.onHover
onHover(uri, line, character) ==
    LET text == IF uri \in DOMAIN documents THEN documents[uri] ELSE ""
        textLines == linesOfText[text]
        lineText == IF line >= 0 /\ line < Len(textLines) THEN textLines[line + 1] ELSE ""
        word == getWordAt(lineText, character)
    IN  IF text = "" THEN NoHover
        ELSE IF word = NoWord THEN NoHover
        ELSE IF word \notin DOMAIN HOVER_DOCS THEN NoHover
        ELSE [null |-> FALSE, kind |-> "markdown", value |-> HOVER_DOCS[word]]

NoEvent == [kind |-> "none", uri |-> "", text |-> "", line |-> 0, character |-> 0]
NotCached == [cached |-> FALSE, text |-> ""]

ServerInit ==
    /\ documents = <<>>
    /\ sentDiagnostics = <<>>
    /\ outbox = <<>>
    /\ hoverResult = NoHover
    /\ lastEvent = NoEvent
    /\ latest = [uri \in Uris |-> NotCached]
    /\ validated = <<>>

\* connection.onDidOpenTextDocument: cache the text (validateText follows)
DidOpen ==
    \E uri \in Uris, text \in Texts :
        /\ documents' = mapSet(documents, uri, text)
        /\ lastEvent' = [NoEvent EXCEPT !.kind = "open", !.uri = uri, !.text = text]
        /\ latest' = [latest EXCEPT ![uri] = [cached |-> TRUE, text |-> text]]

\* params.contentChanges of a change notification: the full text, or nothing
ContentChanges == {<<>>} \cup {<<[text |-> t]>> : t \in Texts}

\* connection.onDidChangeTextDocument: cache contentChanges[0]?.text ?? ""
\* (validateText follows)
DidChange ==
    \E uri \in Uris, contentChanges \in ContentChanges :
        LET text == IF Len(contentChanges) > 0 THEN contentChanges[1].text ELSE ""
            carried == IF Len(contentChanges) > 0
                       THEN contentChanges[Len(contentChanges)].text ELSE ""
        IN  /\ documents' = mapSet(documents, uri, text)
            /\ lastEvent' = [NoEvent EXCEPT !.kind = "change", !.uri = uri, !.text = text]
            /\ latest' = [latest EXCEPT ![uri] = [cached |-> TRUE, text |-> carried]]

\* the call validateText(uri, text) that ends both handlers, with the text
\* just cached
ValidateCached ==
    LET uri == lastEvent'.uri
        text == documents'[uri]
        list == validateText(uri, text)
    IN  /\ outbox' = <<[uri |-> uri, diagnostics |-> list]>>
        /\ sentDiagnostics' = mapSet(sentDiagnostics, uri, list)
        /\ hoverResult' = NoHover
        /\ validated' = IF text \in DOMAIN validated THEN validated
                        ELSE mapSet(validated, text, list)
        /\ UNCHANGED <<passVars, extensionVars, adapterVars>>

\* connection.onDidCloseTextDocument
DidClose ==
    \E uri \in Uris :
        /\ documents' = mapDelete(documents, uri)
        /\ outbox' = <<[uri |-> uri, diagnostics |-> <<>>]>>
        /\ sentDiagnostics' = mapSet(sentDiagnostics, uri, <<>>)
        /\ hoverResult' = NoHover
        /\ lastEvent' = [NoEvent EXCEPT !.kind = "close", !.uri = uri]
        /\ latest' = [latest EXCEPT ![uri] = NotCached]
        /\ UNCHANGED validated
        /\ UNCHANGED <<passVars, extensionVars, adapterVars>>

\* connection.onHover
Hover ==
    \E uri \in Uris, line \in HoverLines, character \in HoverColumns :
        /\ hoverResult' = onHover(uri, line, character)
        /\ outbox' = <<>>
        /\ lastEvent' = [NoEvent EXCEPT !.kind = "hover", !.uri = uri,
                                        !.line = line, !.character = character]
        /\ UNCHANGED <<documents, sentDiagnostics, latest, validated>>
        /\ UNCHANGED <<passVars, extensionVars, adapterVars>>

----------------------------------------------------------------------------
(* The extension: transpiling a document to its sibling .py on every change *)

MaxChanges == 3

\* the documents of the workspace that change, and the texts they change to
Documents ==
    {[languageId |-> "cubloc-basic", scheme |-> "file", path |-> "/a.bas"],
     [languageId |-> "cubloc-basic", scheme |-> "file", path |-> "/b.bas"],
     [languageId |-> "cubloc-basic", scheme |-> "file", path |-> "/a.bas.py"],
     [languageId |-> "cubloc-basic", scheme |-> "untitled", path |-> "/c.bas"],
     [languageId |-> "python", scheme |-> "file", path |-> "/d.py"]}
DocumentTexts == {"DELAY 1", "DELAY 2"}

endsWith(s, suffix) ==
    Len(s) >= Len(suffix) /\ SubSeq(s, Len(s) - Len(suffix) + 1, Len(s)) = suffix

shouldTranspile(document) ==
    IF document.languageId # "cubloc-basic" THEN FALSE
    ELSE IF document.scheme # "file" THEN FALSE
    ELSE IF endsWith(document.path, ".bas.py") THEN FALSE
    ELSE TRUE

\* the transpiler: its output is a function of the text and the path
transpileBasToPython(text, fsPath) == "# " \o fsPath \o "\n" \o text

pyPath(path) == path \o ".py"
Eligible == {d \in Documents : shouldTranspile(d)}

NoTimer == [set |-> FALSE, path |-> "", text |-> "", controller |-> 0]

ExtensionInit ==
    /\ transpileTimer = NoTimer
    /\ transpileController = 0
    /\ aborted = {}
    /\ writing = {}
    /\ files = [d \in {pyPath(e.path) : e \in Eligible} |-> ""]
    /\ changes = 0
    /\ latestText = [d \in {e.path : e \in Eligible} |-> ""]

\* onDidChangeTextDocument: scheduleTranspile(event.document)
ChangeTextDocument ==
    /\ changes < MaxChanges
    /\ changes' = changes + 1
    /\ \E document \in Documents, text \in DocumentTexts :
          IF ~shouldTranspile(document)
          THEN UNCHANGED <<transpileTimer, transpileController, aborted, latestText>>
          ELSE LET controller == changes + 1 IN
               /\ aborted' = IF transpileController # 0
                             THEN aborted \cup {transpileController} ELSE aborted
               /\ transpileController' = controller
               /\ transpileTimer' = [set |-> TRUE, path |-> document.path,
                                     text |-> text, controller |-> controller]
               /\ latestText' = [latestText EXCEPT ![document.path] = text]
    /\ UNCHANGED <<writing, files>>
    /\ UNCHANGED <<passVars, serverVars, adapterVars>>

\* the setTimeout callback: transpileBasDocument up to its await
TimerFires ==
    /\ transpileTimer.set
    /\ transpileTimer' = NoTimer
    /\ LET output == transpileBasToPython(transpileTimer.text, transpileTimer.path) IN
       IF transpileTimer.controller \in aborted THEN UNCHANGED writing
       ELSE writing' = writing \cup {[path |-> pyPath(transpileTimer.path),
                                      output |-> output,
                                      controller |-> transpileTimer.controller]}
    /\ UNCHANGED <<transpileController, aborted, files, changes, latestText>>
    /\ UNCHANGED <<passVars, serverVars, adapterVars>>

\* a writeFile started earlier completes; the calls are not awaited one after
\* the other, so those in flight complete in any order
WriteCompletes ==
    /\ \E write \in writing :
          /\ files' = [files EXCEPT ![write.path] = write.output]
          /\ writing' = writing \ {write}
    /\ UNCHANGED <<transpileTimer, transpileController, aborted, changes, latestText>>
    /\ UNCHANGED <<passVars, serverVars, adapterVars>>

----------------------------------------------------------------------------
(* The debug adapter: framing of requests on stdin, sessions, stop and exit *)

MaxFrames == 2
MaxRequests == 3

\* a faulty search: the terminator is looked for at even offsets only
RECURSIVE indexOfAligned(_, _, _)
indexOfAligned(s, pattern, k) ==
    IF k + Len(pattern) > Len(s) THEN -1
    ELSE IF SubSeq(s, k + 1, k + Len(pattern)) = pattern THEN k
    ELSE indexOfAligned(s, pattern, k + 2)

\* buffer.indexOf(pattern) from a position on, -1 when absent
RECURSIVE indexOfFrom(_, _, _)
indexOfFrom(s, pattern, k) ==
    IF k + Len(pattern) > Len(s) THEN -1
    ELSE IF SubSeq(s, k + 1, k + Len(pattern)) = pattern THEN k
    ELSE indexOfFrom(s, pattern, k + 1)

\* \s* from k on: where the white space ends
RECURSIVE skipBlanks(_, _)
skipBlanks(s, k) ==
    IF k < Len(s) /\ CharAt(s, k) \in {" ", "\t", "\r", "\n"}
    THEN skipBlanks(s, k + 1) ELSE k

\* \d+ from k on: where the digits end
RECURSIVE skipDigits(_, _)
skipDigits(s, k) ==
    IF k < Len(s) /\ IsDigit(CharAt(s, k)) THEN skipDigits(s, k + 1) ELSE k

\* /Content-Length:\s*(\d+)/i.exec(header): the digits of the leftmost match,
\* "" when there is none
contentLengthOf(header) ==
    LET name == "CONTENT-LENGTH:"
        digitsAt(k) == skipBlanks(header, k + Len(name))
        matches(k) ==
            /\ toUpperCase(slice(header, k, k + Len(name))) = name
            /\ IsDigit(CharAt(header, digitsAt(k)))
        found == {k \in 0..(Len(header) - Len(name)) : matches(k)}
    IN  IF found = {} THEN ""
        ELSE LET k == CHOOSE j \in found : \A i \in found : j <= i
             IN  slice(header, digitsAt(k), skipDigits(header, digitsAt(k)))

\* the requests of the model as the client serialises them
NoArguments == [isObject |-> FALSE, serialPort |-> "", program |-> ""]
Request(seq, command, arguments) ==
    [seq |-> seq, command |-> command, arguments |-> arguments]

Threads == "{\"seq\":1,\"command\":\"threads\"}"
Pause == "{\"seq\":2,\"command\":\"pause\"}"
Launch ==
    "{\"seq\":3,\"command\":\"launch\",\"arguments\":{\"serialPort\":\"COM3\",\"program\":\"/p/main.py\"}}"
LaunchCub ==
    "{\"seq\":4,\"command\":\"launch\",\"arguments\":{\"serialPort\":\"COM3\",\"program\":\"/p/main.cub\"}}"
LaunchNoArguments == "{\"seq\":5,\"command\":\"launch\"}"
LaunchNoPort ==
    "{\"seq\":6,\"command\":\"launch\",\"arguments\":{\"serialPort\":3,\"program\":\"/p/main.py\"}}"
LaunchNoProgram ==
    "{\"seq\":7,\"command\":\"launch\",\"arguments\":{\"serialPort\":\"COM3\"}}"
Terminate == "{\"seq\":8,\"command\":\"terminate\"}"
Disconnect == "{\"seq\":9,\"command\":\"disconnect\"}"
Broken == "{\"seq\":3,"

Parsed ==
    [body \in {Threads, Pause, Launch, LaunchCub, LaunchNoArguments, LaunchNoPort,
               LaunchNoProgram, Terminate, Disconnect} |->
        CASE body = Threads -> Request(1, "threads", NoArguments)
          [] body = Pause -> Request(2, "pause", NoArguments)
          [] body = Launch ->
                Request(3, "launch",
                    [isObject |-> TRUE, serialPort |-> "COM3", program |-> "/p/main.py"])
          [] body = LaunchCub ->
                Request(4, "launch",
                    [isObject |-> TRUE, serialPort |-> "COM3", program |-> "/p/main.cub"])
          [] body = LaunchNoArguments -> Request(5, "launch", NoArguments)
          [] body = LaunchNoPort ->
                Request(6, "launch",
                    [isObject |-> TRUE, serialPort |-> "", program |-> "/p/main.py"])
          [] body = LaunchNoProgram ->
                Request(7, "launch",
                    [isObject |-> TRUE, serialPort |-> "COM3", program |-> ""])
          [] body = Terminate -> Request(8, "terminate", NoArguments)
          [] OTHER -> Request(9, "disconnect", NoArguments)]

\* JSON.parse on the bodies of the model: a request, or a SyntaxError
JSONparse(text) ==
    IF text \in DOMAIN Parsed
    THEN [ok |-> TRUE, value |-> Parsed[text], message |-> ""]
    ELSE [ok |-> FALSE, value |-> Request(0, "", NoArguments),
          message |-> "Unexpected end of JSON input"]

\* a message on stdout; body fields other than the output text are left out
NoMessage ==
    [type |-> "", seq |-> 0, request_seq |-> 0, success |-> FALSE, command |-> "",
     event |-> "", category |-> "", output |-> "", message |-> ""]

sendMessage(m, message) == [m EXCEPT !.stdout = Append(@, message)]

sendResponse(m, request, success, message) ==
    sendMessage([m EXCEPT !.nextSeq = @ + 1],
        [NoMessage EXCEPT !.type = "response", !.seq = m.nextSeq,
                          !.request_seq = request.seq, !.success = success,
                          !.command = request.command, !.message = message])

sendEvent(m, event, category, output) ==
    sendMessage([m EXCEPT !.nextSeq = @ + 1],
        [NoMessage EXCEPT !.type = "event", !.seq = m.nextSeq, !.event = event,
                          !.category = category, !.output = output])

sendOutput(m, output, category) ==
    IF output = "" THEN m ELSE sendEvent(m, "output", category, output)

queueTerminate(m) ==
    IF m.terminateTimer THEN m
    ELSE [m EXCEPT !.terminateTimer = TRUE, !.exitTimers = @ + 1]

NoSession ==
    [null |-> TRUE, id |-> 0, serialPort |-> "", pythonPath |-> "", stopCommand |-> ""]

\* a faulty check: the program is not asked for
resolveLaunchArgsWithoutProgram(args, id, readable) ==
    IF ~args.isObject
    THEN [error |-> "Missing launch configuration.", session |-> NoSession]
    ELSE IF args.serialPort = ""
    THEN [error |-> "Launch configuration requires a 'serialPort' string.",
          session |-> NoSession]
    ELSE [error |-> "",
          session |-> [null |-> FALSE, id |-> id, serialPort |-> args.serialPort,
                       pythonPath |-> args.program, stopCommand |-> "soft-reset"]]

\* resolveLaunchArgs: the session options, or the message of the Error thrown;
\* readable tells whether fs.readFileSync and the transpiler succeed
resolveLaunchArgs(args, id, readable) ==
    IF ~args.isObject
    THEN [error |-> "Missing launch configuration.", session |-> NoSession]
    ELSE IF args.serialPort = ""
    THEN [error |-> "Launch configuration requires a 'serialPort' string.",
          session |-> NoSession]
    ELSE IF args.program = ""
    THEN [error |-> "Launch configuration requires a 'program' path.",
          session |-> NoSession]
    ELSE IF endsWith(toUpperCase(args.program), ".CUB") /\ ~readable
    THEN [error |-> "ENOENT: no such file or directory, open '" \o args.program \o "'",
          session |-> NoSession]
    ELSE [error |-> "",
          session |-> [null |-> FALSE, id |-> id, serialPort |-> args.serialPort,
                       pythonPath |-> IF endsWith(toUpperCase(args.program), ".CUB")
                                      THEN args.program \o ".py" ELSE args.program,
                       stopCommand |-> "soft-reset"]]

\* spawn(options.mpremotePath, args): a child process that settles later; what
\* it prints meanwhile, forwarded as output events, is left out
spawn(m, kind, session, handler) ==
    [m EXCEPT !.children = @ \cup {[id |-> m.spawned + 1, kind |-> kind,
                                    session |-> session.id, handler |-> handler]},
              !.spawned = @ + 1,
              !.stops = IF kind = "stop" THEN Append(@, session.id) ELSE @]

uploadWithMpremote(m, options) ==
    spawn(sendOutput(m, "mpremote connect " \o options.serialPort \o " fs cp "
                        \o options.pythonPath \o " :main.py + exec "
                        \o "exec(open('main.py').read(), globals())\n", "console"),
          "upload", options, 0)

stopWithMpremote(m, options, handler) ==
    spawn(sendOutput(m, "mpremote connect " \o options.serialPort \o " "
                        \o options.stopCommand \o "\n", "console"),
          "stop", options, handler)

handleLaunch(m, request, readable) ==
    LET resolved == resolveLaunchArgs(request.arguments, m.dispatched, readable) IN
    IF resolved.error = ""
    THEN LET m1 == sendResponse([m EXCEPT !.currentSession = resolved.session],
                                request, TRUE, "")
             m2 == sendEvent(m1, "process", "", "")
             m3 == sendEvent(m2, "thread", "", "")
             m4 == sendEvent(m3, "continued", "", "")
         IN  uploadWithMpremote(m4, resolved.session)
    ELSE LET m1 == sendOutput(m, resolved.error \o "\n", "stderr")
             m2 == sendResponse(m1, request, FALSE, resolved.error)
         IN  queueTerminate(sendEvent(m2, "terminated", "", ""))

\* the catch of uploadWithMpremote(resolved) in handleLaunch
uploadFailed(m, message) ==
    queueTerminate(sendEvent(sendOutput(m, message \o "\n", "stderr"),
                             "terminated", "", ""))

\* a faulty handler: it does not wait for the stop command
handleStopWithoutAwait(m, request) ==
    IF m.currentSession.null
    THEN [m EXCEPT !.micro = Append(@, request)]
    ELSE [stopWithMpremote(m, m.currentSession, m.dispatched)
            EXCEPT !.awaiting = @ \cup {[handler |-> m.dispatched, request |-> request]},
                   !.micro = Append(@, request)]

\* handleDisconnect / handleTerminate up to the await: stopExecution starts
\* the stop command when a session is active, and returns at once otherwise,
\* the rest of the handler then running as a microtask
handleStop(m, request) ==
    IF m.currentSession.null
    THEN [m EXCEPT !.micro = Append(@, request)]
    ELSE [stopWithMpremote(m, m.currentSession, m.dispatched)
            EXCEPT !.awaiting = @ \cup {[handler |-> m.dispatched, request |-> request]}]

\* handleDisconnect / handleTerminate after the await
afterStop(m, request) ==
    queueTerminate(sendEvent(sendResponse(m, request, TRUE, ""), "terminated", "", ""))

\* stopExecution after the await of stopWithMpremote, then the handler's rest
stopSettled(m, request, message) ==
    afterStop([sendOutput(m, IF message = "" THEN "" ELSE message \o "\n", "stderr")
                  EXCEPT !.currentSession = NoSession],
              request)

handleRequest(m0, request, readable) ==
    LET m == [m0 EXCEPT !.dispatched = @ + 1, !.handled = Append(@, request),
                        !.sessionAt = Append(@, m0.currentSession.id)] IN
    CASE request.command = "initialize" ->
            sendEvent(sendResponse(m, request, TRUE, ""), "initialized", "", "")
      [] request.command = "launch" -> handleLaunch(m, request, readable)
      [] request.command \in {"disconnect", "terminate"} -> handleStop(m, request)
      [] request.command = "pause" ->
            sendEvent(sendResponse(m, request, TRUE, ""), "stopped", "", "")
      [] request.command = "continue" ->
            sendEvent(sendResponse(m, request, TRUE, ""), "continued", "", "")
      [] OTHER -> sendResponse(m, request, TRUE, "")

RECURSIVE processBuffer(_, _)
processBuffer(m, readable) ==
    LET headerEnd == indexOfFrom(m.buffer, "\r\n\r\n", 0)
        digits == contentLengthOf(slice(m.buffer, 0, headerEnd))
        body == slice(m.buffer, 0, m.contentLength)
        rest == [m EXCEPT !.buffer = slice(m.buffer, m.contentLength, Len(m.buffer)),
                          !.contentLength = -1]
        message == JSONparse(body)
    IN  IF m.contentLength = -1
        THEN IF headerEnd = -1 THEN m
             ELSE IF digits = ""
             THEN processBuffer(
                     [m EXCEPT !.buffer = slice(m.buffer, headerEnd + 4, Len(m.buffer))],
                     readable)
             ELSE processBuffer(
                     [m EXCEPT !.buffer = slice(m.buffer, headerEnd + 4, Len(m.buffer)),
                               !.contentLength = digitsValue(digits, 0)],
                     readable)
        ELSE IF Len(m.buffer) < m.contentLength THEN m
        ELSE IF ~message.ok
        THEN processBuffer(
                sendOutput(rest, "Failed to parse request: " \o message.message \o "\n",
                           "stderr"),
                readable)
        ELSE processBuffer(handleRequest(rest, message.value, readable), readable)

\* the microtasks queued while the chunk was processed
RECURSIVE drainMicrotasks(_)
drainMicrotasks(m) ==
    IF m.micro = <<>> THEN m
    ELSE drainMicrotasks(afterStop([m EXCEPT !.micro = Tail(@)], Head(m.micro)))

\* process.stdin.on("data")
onData(m, chunk, readable) ==
    drainMicrotasks(processBuffer([m EXCEPT !.buffer = @ \o chunk], readable))

\* decimal digits of a number below 1000
DigitOf == [d \in 0..9 |-> SubSeq("0123456789", d + 1, d + 1)]
toDigits(n) ==
    IF n < 10 THEN DigitOf[n]
    ELSE IF n < 100 THEN DigitOf[n \div 10] \o DigitOf[n % 10]
    ELSE DigitOf[n \div 100] \o DigitOf[(n \div 10) % 10] \o DigitOf[n % 10]

\* sendMessage as the client does it
framed(body) == "Content-Length: " \o toDigits(Len(body)) \o "\r\n\r\n" \o body

\* what the client of the framing model writes: two requests, one of them with
\* a lower-case header name and no blank, a header block without
\* Content-Length, and a body that is not JSON
FramingFrames ==
    {framed(Threads),
     "content-length:" \o toDigits(Len(Pause)) \o "\r\nContent-Type: json\r\n\r\n" \o Pause,
     "Content-Type: json\r\n\r\n",
     framed(Broken)}

ChunkSizes == {1, 3, 8, 21}

MaxLaunches == 2

\* what the client of the session model writes
SessionFrames == {framed(Launch), framed(Terminate), framed(Disconnect)}

\* what the client of the launch model writes
LaunchFrames ==
    {framed(Launch), framed(LaunchCub), framed(LaunchNoArguments),
     framed(LaunchNoPort), framed(LaunchNoProgram)}

AdapterInit ==
    /\ adapter = [nextSeq |-> 1, contentLength |-> -1, buffer |-> "",
                  terminateTimer |-> FALSE, currentSession |-> NoSession]
    /\ process = [stdin |-> "", ended |-> FALSE, stdout |-> <<>>, children |-> {},
                  awaiting |-> {}, exited |-> FALSE]
    /\ adapterLog = [written |-> <<>>, dispatched |-> 0, handled |-> <<>>,
                     spawned |-> 0, stops |-> <<>>, exitTimers |-> 0,
                     sessionAt |-> <<>>, last |-> "none", carried |-> 0]

\* the module state, the process and the history as one record, with an empty
\* microtask queue
machine == adapter @@ process @@ adapterLog @@ [micro |-> <<>>]

becomes(m, event) ==
    /\ adapter' = [f \in DOMAIN adapter |-> m[f]]
    /\ process' = [f \in DOMAIN process |-> m[f]]
    /\ adapterLog' = [[f \in DOMAIN adapterLog |-> m[f]]
                         EXCEPT !.last = event,
                                !.carried = IF event = "data" THEN Len(adapter.buffer)
                                            ELSE 0]

\* the client writes one more frame to the pipe
ClientWrites ==
    /\ ~process.exited /\ ~process.ended
    /\ Len(adapterLog.written) < MaxFrames
    /\ \E frame \in FramingFrames :
          becomes([machine EXCEPT !.stdin = @ \o frame,
                                  !.written = Append(@, frame)], "write")
    /\ UNCHANGED <<passVars, serverVars, extensionVars>>

\* process.stdin.on("data") with the next bytes of the pipe, however many
StdinData ==
    /\ ~process.exited
    /\ process.stdin # ""
    /\ \E n \in ChunkSizes \cup {Len(process.stdin)} :
          /\ n <= Len(process.stdin)
          /\ becomes(onData([machine EXCEPT !.stdin = slice(@, n, Len(@))],
                            slice(process.stdin, 0, n), TRUE), "data")
    /\ UNCHANGED <<passVars, serverVars, extensionVars>>

\* process.stdin.on("data") with one or two complete frames the client wrote
\* at once; readable is what the file system answers during this chunk
StdinFrames(Frames, Max) ==
    /\ ~process.exited /\ ~process.ended
    /\ \E first \in Frames, second \in Frames \cup {""}, readable \in BOOLEAN :
          /\ Len(adapterLog.written) + (IF second = "" THEN 1 ELSE 2) <= Max
          /\ becomes(onData([machine EXCEPT
                                !.written = IF second = "" THEN Append(@, first)
                                            ELSE Append(Append(@, first), second)],
                            first \o second, readable), "data")
    /\ UNCHANGED <<passVars, serverVars, extensionVars>>

\* a child process closes with code 0, closes with another code, or fails to start
ChildSettles ==
    /\ ~process.exited
    /\ \E child \in process.children, outcome \in {"0", "1", "error"} :
          LET message == CASE outcome = "0" -> ""
                           [] outcome = "1" -> "mpremote exited with code 1."
                           [] OTHER -> "Failed to start mpremote: spawn mpremote ENOENT. Set 'mpremotePath' if it's not on PATH."
              m == [machine EXCEPT !.children = @ \ {child}]
              waiting == CHOOSE w \in process.awaiting : w.handler = child.handler
          IN  IF child.kind = "upload"
              THEN becomes(IF message = "" THEN m ELSE uploadFailed(m, message),
                           "upload " \o outcome)
              ELSE becomes(stopSettled([m EXCEPT !.awaiting = @ \ {waiting}],
                                       waiting.request, message), "stop " \o outcome)
    /\ UNCHANGED <<passVars, serverVars, extensionVars>>

\* process.stdin.on("end")
StdinEnd ==
    /\ ~process.exited /\ ~process.ended
    /\ process.stdin = ""
    /\ becomes(queueTerminate([machine EXCEPT !.ended = TRUE]), "end")
    /\ UNCHANGED <<passVars, serverVars, extensionVars>>

\* the exit timer: process.exit(0)
ExitTimerFires ==
    /\ ~process.exited
    /\ adapter.terminateTimer
    /\ becomes([machine EXCEPT !.exited = TRUE], "exit")
    /\ UNCHANGED <<passVars, serverVars, extensionVars>>

----------------------------------------------------------------------------
(* validateText as a state machine                                         *)

Init ==
    /\ lines = <<>>
    /\ stack = <<>>
    /\ diagnostics = <<>>
    /\ pc = "lines"
    /\ published = <<>>
    /\ stackBefore = <<>>
    /\ diagsBefore = 0
    /\ ServerInit
    /\ ExtensionInit
    /\ AdapterInit

\* one iteration of the for loop, on the next line of the document
ValidateLine ==
    /\ pc = "lines"
    /\ Len(lines) < MaxLines
    /\ \E line \in UNION {v \in Vocabularies : \A k \in 1..Len(lines) : lines[k] \in v} :
          /\ LET ctx == validateLine([stack |-> stack, diagnostics |-> diagnostics],
                                     line, Len(lines))
             IN  /\ lines' = Append(lines, line)
                 /\ stack' = ctx.stack
                 /\ diagnostics' = ctx.diagnostics
    /\ stackBefore' = stack
    /\ diagsBefore' = Len(diagnostics)
    /\ UNCHANGED <<pc, published>>
    /\ UNCHANGED <<serverVars, extensionVars, adapterVars>>

\* a faulty end of the pass: nothing is published while a block is open
EndOfDocumentOnEmptyStack ==
    /\ pc = "lines"
    /\ Len(lines) >= 1
    /\ stack = <<>>
    /\ published' = diagnostics
    /\ pc' = "done"
    /\ stackBefore' = stack
    /\ diagsBefore' = Len(diagnostics)
    /\ UNCHANGED <<lines, stack, diagnostics>>
    /\ UNCHANGED <<serverVars, extensionVars, adapterVars>>

\* after the last line: drain the stack and send the diagnostics
EndOfDocument ==
    /\ pc = "lines"
    /\ Len(lines) >= 1
    /\ diagnostics' = diagnostics \o drainStack(stack)
    /\ stack' = <<>>
    /\ published' = diagnostics'
    /\ pc' = "done"
    /\ stackBefore' = stack
    /\ diagsBefore' = Len(diagnostics)
    /\ UNCHANGED lines
    /\ UNCHANGED <<serverVars, extensionVars, adapterVars>>

Next == ValidateLine \/ EndOfDocument

Spec == Init /\ [][Next]_vars

\* the server handling notifications and requests, one at a time
ServerNext == ((DidOpen \/ DidChange) /\ ValidateCached) \/ DidClose \/ Hover

ServerSpec == Init /\ [][ServerNext]_vars

\* the extension host handling change events, timers and write completions
ExtensionNext == ChangeTextDocument \/ TimerFires \/ WriteCompletes

ExtensionSpec == Init /\ [][ExtensionNext]_vars

\* the framing of stdin: the client writes frames, the pipe delivers them in
\* chunks of any size
FramingNext == ClientWrites \/ StdinData \/ StdinEnd \/ ExitTimerFires

FramingSpec == Init /\ [][FramingNext]_vars

\* sessions: whole requests arrive, child processes settle, the exit timer fires
AdapterNext ==
    StdinFrames(SessionFrames, MaxRequests) \/ ChildSettles \/ StdinEnd \/ ExitTimerFires

AdapterSpec == Init /\ [][AdapterNext]_vars

\* launches: launch requests with good and bad arguments, and their uploads
LaunchNext ==
    StdinFrames(LaunchFrames, MaxLaunches) \/ ChildSettles \/ StdinEnd \/ ExitTimerFires

LaunchSpec == Init /\ [][LaunchNext]_vars

----------------------------------------------------------------------------
(* Vocabulary of the properties: the block keywords of a line as the       *)
(* specification reads them, and the reference nesting policy              *)

lastLine == lines[Len(lines)]
lastLineNumber == Len(lines) - 1
newDiagnostics == SubSeq(diagnostics, diagsBefore + 1, Len(diagnostics))
aLineWasWalked == pc = "lines" /\ Len(lines) > 0

Contains(s, part) ==
    \E k \in 1..(Len(s) - Len(part) + 1) : SubSeq(s, k, k + Len(part) - 1) = part

\* the kind of block a line opens, "" when it opens none
KindOpened(line) ==
    LET tokens == getTokens(line)
        first == tokenText(tokens, 0)
    IN  IF first = "IF" THEN
            (IF tokenText(tokens, Len(tokens) - 1) = "THEN" THEN "IF" ELSE "")
        ELSE IF first = "DO" THEN
            (IF findIndex(tokens, "LOOP") = -1 THEN "DO" ELSE "")
        ELSE IF first \in {"FOR", "WHILE", "SUB", "FUNCTION", "TYPE", "WITH", "SELECT"}
        THEN first
        ELSE ""

\* the kind of block a line closes, "" when it closes none
KindClosed(line) ==
    LET tokens == getTokens(line)
        first == tokenText(tokens, 0)
        second == tokenText(tokens, 1)
    IN  IF first = "ENDIF" \/ (first = "END" /\ second = "IF") THEN "IF"
        ELSE IF first = "NEXT" THEN "FOR"
        ELSE IF first = "LOOP" THEN "DO"
        ELSE IF first = "WEND" THEN "WHILE"
        ELSE IF first = "END" /\ second \in {"SUB", "FUNCTION", "SELECT", "TYPE", "WITH"}
        THEN second
        ELSE ""

\* the While/Until clauses of a DO or LOOP line (both halves of a line that
\* holds DO and LOOP) are clauses the validator accepts
ClauseAccepted(line) ==
    LET tokens == getTokens(line)
        first == tokenText(tokens, 0)
        loopIndex == findIndex(tokens, "LOOP")
        accepted(part, context) ==
            parseLoopCondition(part, 1, Len(part), 0, context).diagnostics = <<>>
    IN  IF first = "DO" /\ loopIndex # -1
        THEN /\ accepted(SubSeq(tokens, 1, loopIndex), "DO")
             /\ accepted(SubSeq(tokens, loopIndex + 1, Len(tokens)), "LOOP")
        ELSE first \in {"DO", "LOOP"} => accepted(tokens, first)

ClausesAccepted(doc) == \A k \in 1..Len(doc) : ClauseAccepted(doc[k])

\* 1-based position of the nearest frame of the kind from the top, 0 when none
Nearest(frames, kind) ==
    IF \E i \in 1..Len(frames) : frames[i].type = kind
    THEN CHOOSE i \in 1..Len(frames) :
            frames[i].type = kind /\ \A j \in (i + 1)..Len(frames) : frames[j].type # kind
    ELSE 0

\* the reference policy after the first n lines: kind and opening line of each open block
RECURSIVE RefStack(_, _)
RefStack(doc, n) ==
    IF n = 0 THEN <<>>
    ELSE LET below == RefStack(doc, n - 1)
             opened == KindOpened(doc[n])
             closed == KindClosed(doc[n])
         IN  IF opened # "" THEN Append(below, [type |-> opened, line |-> n - 1])
             ELSE IF closed # "" /\ Nearest(below, closed) # 0
             THEN SubSeq(below, 1, Nearest(below, closed) - 1)
             ELSE below

\* every closer among the first n lines met its own kind on top
RECURSIVE ClosersMatch(_, _)
ClosersMatch(doc, n) ==
    IF n = 0 THEN TRUE
    ELSE /\ ClosersMatch(doc, n - 1)
         /\ KindClosed(doc[n]) # "" =>
               LET below == RefStack(doc, n - 1) IN
               Len(below) > 0 /\ below[Len(below)].type = KindClosed(doc[n])

ProperlyNested(doc) == ClosersMatch(doc, Len(doc)) /\ RefStack(doc, Len(doc)) = <<>>

Shape(stk) == [k \in 1..Len(stk) |-> [type |-> stk[k].type, line |-> stk[k].line]]

IsStructural(d) ==
    \/ Contains(d.message, " without matching ")
    \/ Contains(d.message, "Missing ") /\ Contains(d.message, " before ")
    \/ Contains(d.message, "Missing ") /\ Contains(d.message, " for ")

\* the column range of the first keyword of line n (0-based) of the document
keywordRange(n) == tokenRange(n, tokensOfLine[lines[n + 1]][1])

OnlyBlockLines(doc) ==
    \A k \in 1..Len(doc) : KindOpened(doc[k]) # "" \/ KindClosed(doc[k]) # ""

occurrences(diags, d) == Cardinality({j \in 1..Len(diags) : diags[j] = d})

topOf(stk) == stk[Len(stk)]

missingBeforeLabel(frame, closedKind) ==
    Diagnostic("Error", keywordRange(frame.line),
        "Missing " \o BLOCK_ENDINGS[frame.type] \o " before " \o BLOCK_ENDINGS[closedKind] \o ".")

missingForLabel(frame) ==
    Diagnostic("Error", keywordRange(frame.line),
        "Missing " \o BLOCK_ENDINGS[frame.type] \o " for " \o formatKeyword(frame.type) \o ".")

----------------------------------------------------------------------------
(* Properties of the block-nesting validator                                *)

\* C1: a document that consists only of properly nested, correctly closed
\* block pairs publishes no structural diagnostic (no "... without matching
\* ...", no "Missing ... before ...", no "Missing ... for ...").  Stated on
\* the documents whose While/Until clauses the validator accepts, so that a
\* violation is one of the nesting rules alone.
C1_NestedPairsPublishNothingStructural ==
    (pc = "done" /\ OnlyBlockLines(lines) /\ ProperlyNested(lines) /\ ClausesAccepted(lines))
        => \A k \in 1..Len(published) : ~IsStructural(published[k])

\* C2: open A, open a different kind B, close A: the pass publishes exactly
\* one diagnostic, anchored at B's opener, "Missing <closer label of B> before
\* <closer label of A>.", and nothing about A or at the end of the document.
C2_RecoveryReportsOnlyTheSkippedBlock ==
    (/\ pc = "done" /\ Len(lines) = 3 /\ ClausesAccepted(lines)
     /\ KindOpened(lines[1]) # "" /\ KindOpened(lines[2]) # ""
     /\ KindOpened(lines[2]) # KindOpened(lines[1])
     /\ KindClosed(lines[3]) = KindOpened(lines[1]))
        => published =
             <<missingBeforeLabel([type |-> KindOpened(lines[2]), line |-> 1],
                                  KindOpened(lines[1]))>>

\* C3: after each line the block stack is the stack of the reference policy
\* (an opener pushes one frame, a closer removes its nearest frame and the
\* frames above it, a closer with no frame of its kind changes nothing).
C3_StackFollowsReferencePolicy ==
    (pc = "lines" /\ ClausesAccepted(lines)) => Shape(stack) = RefStack(lines, Len(lines))

\* C4: a closer whose kind is not on top but is found at position d leaves
\* exactly the frames strictly below d, unchanged and in order.
C4_MismatchKeepsFramesBelowTheMatch ==
    (/\ aLineWasWalked /\ ClauseAccepted(lastLine)
     /\ KindClosed(lastLine) # ""
     /\ Len(stackBefore) > 0
     /\ topOf(stackBefore).type # KindClosed(lastLine)
     /\ Nearest(stackBefore, KindClosed(lastLine)) # 0)
        => stack = SubSeq(stackBefore, 1, Nearest(stackBefore, KindClosed(lastLine)) - 1)

\* C5: a closer (LOOP included) whose kind is on top removes exactly the top
\* frame, leaves every frame beneath it and emits no mismatch diagnostic.
C5_MatchingCloserPopsOneFrame ==
    (/\ aLineWasWalked /\ ClauseAccepted(lastLine)
     /\ KindClosed(lastLine) # ""
     /\ Len(stackBefore) > 0
     /\ topOf(stackBefore).type = KindClosed(lastLine))
        => /\ stack = SubSeq(stackBefore, 1, Len(stackBefore) - 1)
           /\ \A k \in 1..Len(newDiagnostics) : ~IsStructural(newDiagnostics[k])

\* C6: a closer C of kind K with no frame of kind K on the stack emits exactly
\* one Error "<closer label C> without matching <K>." at the closer keyword
\* and leaves the stack unchanged, for all nine closers.
C6_StrayCloserReportedAndStackKept ==
    (/\ aLineWasWalked /\ ClauseAccepted(lastLine)
     /\ KindClosed(lastLine) # ""
     /\ Nearest(stackBefore, KindClosed(lastLine)) = 0)
        => /\ newDiagnostics =
                <<Diagnostic("Error", keywordRange(lastLineNumber),
                    BLOCK_ENDINGS[KindClosed(lastLine)] \o " without matching "
                        \o formatKeyword(KindClosed(lastLine)) \o ".")>>
           /\ stack = stackBefore

\* C7: at the end of the document every frame still open produces exactly one
\* Error "Missing <its closer label> for <its kind>." anchored at its opener
\* keyword, nothing else is appended, the stack ends empty; the document
\* "FOR i = 1 TO 10" publishes exactly "Missing Next for For." at FOR.
C7_EndOfDocumentReportsEveryOpenFrame ==
    pc = "done" =>
        /\ stack = <<>>
        /\ published = diagnostics
        /\ Len(newDiagnostics) = Len(stackBefore)
        /\ \A k \in 1..Len(stackBefore) :
              occurrences(newDiagnostics, missingForLabel(stackBefore[k])) = 1
        /\ lines = <<"FOR i = 1 TO 10">> =>
              published = <<Diagnostic("Error", makeRange(0, 0, 3), "Missing Next for For.")>>

\* C7 witness: a pass ended with several blocks still open
C7_Witness == pc = "done" /\ Len(stackBefore) >= 2 /\ Len(published) >= 2

\* C8: a closer C matching a frame at position d below the top appends one
\* "Missing <frame's closer label> before <C>." per frame above d, innermost
\* first, each anchored at the skipped frame's opener, and no structural
\* diagnostic for the matched frame or any frame below it.
C8_SkippedFramesReportedInnermostFirst ==
    (/\ aLineWasWalked /\ ClauseAccepted(lastLine)
     /\ KindClosed(lastLine) # ""
     /\ Len(stackBefore) > 0
     /\ topOf(stackBefore).type # KindClosed(lastLine)
     /\ Nearest(stackBefore, KindClosed(lastLine)) # 0)
        => LET skipped == Len(stackBefore) - Nearest(stackBefore, KindClosed(lastLine)) IN
           /\ Len(newDiagnostics) >= skipped
           /\ \A j \in 1..skipped :
                 newDiagnostics[j] =
                     missingBeforeLabel(stackBefore[Len(stackBefore) - j + 1],
                                        KindClosed(lastLine))
           /\ \A j \in (skipped + 1)..Len(newDiagnostics) : ~IsStructural(newDiagnostics[j])

\* a DO or LOOP line carries a While/Until condition
CarriesCondition(line) ==
    LET tokens == getTokens(line) IN
    ~parseLoopCondition(tokens, 1, Len(tokens), 0, tokenText(tokens, 0)).condition.null

\* C9: for one loop instance, "Loop cannot include a condition when Do already
\* has While/Until." is emitted exactly once, at LOOP, when both the DO that
\* the LOOP closes and the LOOP carry a valid condition, and not otherwise.
C9_ConditionOnBothEndsReportedOnce ==
    (/\ aLineWasWalked /\ ClausesAccepted(lines)
     /\ KindClosed(lastLine) = "DO"
     /\ Nearest(RefStack(lines, Len(lines) - 1), "DO") # 0)
        => LET open == RefStack(lines, Len(lines) - 1)
               doLine == lines[open[Nearest(open, "DO")].line + 1]
               both == CarriesCondition(doLine) /\ CarriesCondition(lastLine)
           IN  occurrences(newDiagnostics,
                   Diagnostic("Error", keywordRange(lastLineNumber),
                       "Loop cannot include a condition when Do already has While/Until."))
               = IF both THEN 1 ELSE 0

\* C10: "<Do|Loop> <While|Until> requires a condition." is emitted exactly
\* when nothing follows the While/Until keyword on the comment-stripped line.
C10_RequiresConditionIffNothingFollows ==
    LET tokens == getTokens(lastLine)
        first == tokenText(tokens, 0)
        clause == tokens[2]
        rest == trim(slice(stripComments(lastLine), clause.index + clause.length,
                           Len(lastLine)))
    IN  (/\ aLineWasWalked
         /\ first \in {"DO", "LOOP"}
         /\ findIndex(tokens, "LOOP") \in {-1, 0}
         /\ tokenText(tokens, 1) \in {"WHILE", "UNTIL"}
         /\ ~(findIndex(tokens, "WHILE") # -1 /\ findIndex(tokens, "UNTIL") # -1))
            => (occurrences(newDiagnostics,
                    Diagnostic("Error", tokenRange(lastLineNumber, clause),
                        formatKeyword(first) \o " " \o formatKeyword(clause.text)
                            \o " requires a condition.")) = 1
                <=> rest = "")

----------------------------------------------------------------------------
(* Statement lines: what the last walked line added                        *)

lastTokens == tokensOfLine[lastLine]
firstToken == tokenText(lastTokens, 0)
newErrors == SelectSeq(newDiagnostics, LAMBDA d : d.severity = "Error")
atKeyword(message) ==
    Diagnostic("Error", tokenRange(lastLineNumber, lastTokens[1]), message)

\* C11: a line that starts with DO and holds LOOP, both halves well formed,
\* emits no structural diagnostic and leaves the block stack exactly as it
\* was before the line, whatever blocks enclose it.
C11_OneLineLoopLeavesStackAlone ==
    (/\ aLineWasWalked
     /\ firstToken = "DO"
     /\ findIndex(lastTokens, "LOOP") # -1
     /\ ClauseAccepted(lastLine))
        => /\ stack = stackBefore
           /\ \A k \in 1..Len(newDiagnostics) : ~IsStructural(newDiagnostics[k])

\* positions (1-based) of the tokens of the last line that read THEN
thenPositions == {k \in 1..Len(lastTokens) : lastTokens[k].text = "THEN"}
ifFrame == [type |-> "IF", line |-> lastLineNumber]
ifWithoutThen == atKeyword("If without Then.")

\* C12 as stated: an IF line pushes an IF frame iff THEN is the last token of
\* the comment-truncated line; with a THEN that is not last it pushes nothing
\* and emits nothing; with no THEN it emits exactly one Error "If without
\* Then" anchored at IF and pushes nothing; no IF line pops a frame.
C12_IfPushesIffThenIsLastToken ==
    LET thenIsLast == Len(lastTokens) \in thenPositions
    IN  (aLineWasWalked /\ firstToken = "IF")
            => /\ thenIsLast => /\ Shape(stack) = Append(Shape(stackBefore), ifFrame)
                                /\ newErrors = <<>>
               /\ ~thenIsLast => stack = stackBefore
               /\ (thenPositions # {} /\ ~thenIsLast) => newErrors = <<>>
               /\ thenPositions = {} => newErrors = <<ifWithoutThen>>

\* C12 amended: an IF line pushes an IF frame iff the FIRST THEN token of the
\* comment-truncated line is its last token; an IF line whose first THEN is
\* followed by another token pushes nothing and emits nothing; with no THEN
\* it emits exactly one Error "If without Then." anchored at IF and pushes
\* nothing; no IF line pops a frame.
C12_IfPushesIffFirstThenIsLastToken ==
    LET firstThenIsLast == thenPositions = {Len(lastTokens)}
    IN  (aLineWasWalked /\ firstToken = "IF")
            => /\ firstThenIsLast => /\ Shape(stack) = Append(Shape(stackBefore), ifFrame)
                                     /\ newErrors = <<>>
               /\ ~firstThenIsLast => stack = stackBefore
               /\ (thenPositions # {} /\ ~firstThenIsLast) => newErrors = <<>>
               /\ thenPositions = {} => newErrors = <<ifWithoutThen>>

\* a block IF opened inside an open block, after an IF line that opened none
C12_Witness ==
    /\ aLineWasWalked
    /\ firstToken = "IF"
    /\ thenPositions = {Len(lastTokens)}
    /\ Len(stackBefore) > 0
    /\ Shape(stack) = Append(Shape(stackBefore), ifFrame)
    /\ \E k \in 1..(Len(lines) - 1) :
          /\ Cardinality({j \in 1..Len(getTokens(lines[k])) :
                             getTokens(lines[k])[j].text = "THEN"}) = 2

\* C13: an ELSEIF, ELSE IF or ELSE line never changes the block stack; it
\* emits exactly one Error anchored at its first token ("ElseIf without
\* matching If." for ELSEIF and ELSE IF, "Else without matching If." for
\* ELSE) when no IF frame is anywhere on the stack, and nothing when an IF
\* frame is open at any depth.
C13_ElseNeedsAnOpenIfAtAnyDepth ==
    LET elseIf == firstToken = "ELSEIF"
                     \/ (firstToken = "ELSE" /\ tokenText(lastTokens, 1) = "IF")
        ifIsOpen == \E k \in 1..Len(stackBefore) : stackBefore[k].type = "IF"
        message == IF elseIf THEN "ElseIf without matching If."
                   ELSE "Else without matching If."
    IN  (aLineWasWalked /\ firstToken \in {"ELSEIF", "ELSE"})
            => /\ stack = stackBefore
               /\ newErrors = IF ifIsOpen THEN <<>> ELSE <<atKeyword(message)>>

\* an ELSE IF line accepted silently under an IF that is not the innermost block
C13_Witness ==
    /\ aLineWasWalked
    /\ firstToken = "ELSE" /\ tokenText(lastTokens, 1) = "IF"
    /\ Len(stackBefore) >= 2
    /\ stackBefore[Len(stackBefore)].type = "FOR"
    /\ \E k \in 1..Len(stackBefore) : stackBefore[k].type = "IF"
    /\ stack = stackBefore
    /\ newErrors = <<>>

\* a bare integer literal as the specification reads it: an operand that is
\* entirely a decimal integer, a leading minus sign included
isBareInteger(text) ==
    LET digits == IF CharAt(text, 0) = "-" THEN slice(text, 1, Len(text)) ELSE text
    IN  Len(digits) > 0 /\ \A k \in 0..(Len(digits) - 1) : IsDigit(CharAt(digits, k))
integerValue(text) ==
    IF CharAt(text, 0) = "-" THEN 0 - digitsValue(slice(text, 1, Len(text)), 0)
    ELSE digitsValue(text, 0)

commasOf(text) == {k \in 0..(Len(text) - 1) : CharAt(text, k) = ","}
hasNoNesting(text) ==
    \A k \in 0..(Len(text) - 1) : CharAt(text, k) \notin {"(", ")", "\""}

\* C14: on "OUT p, v" the port error is emitted iff p is a bare integer literal
\* outside 0..255 and the value error iff v is a bare integer literal other
\* than 0 and 1, each independently of the other; operands that are not bare
\* literals are never range-checked.
C14_OutRangesCheckedOnBareLiterals ==
    LET cleanLine == stripComments(lastLine)
        comma == CHOOSE k \in commasOf(cleanLine) : TRUE
        keyword == lastTokens[1]
        p == trim(slice(cleanLine, keyword.index + keyword.length, comma))
        v == trim(slice(cleanLine, comma + 1, Len(cleanLine)))
        portError == atKeyword("Out port must be 0 to 255.")
        valueError == atKeyword("Out value must be 0 or 1.")
    IN  (/\ aLineWasWalked
         /\ firstToken = "OUT"
         /\ hasNoNesting(lastLine)
         /\ Cardinality(commasOf(cleanLine)) = 1
         /\ p # "" /\ v # "")
            => /\ occurrences(newErrors, portError) =
                    (IF isBareInteger(p) /\ integerValue(p) \notin 0..255 THEN 1 ELSE 0)
               /\ occurrences(newErrors, valueError) =
                    (IF isBareInteger(v) /\ integerValue(v) \notin {0, 1} THEN 1 ELSE 0)
               /\ Len(newErrors) = occurrences(newErrors, portError)
                                     + occurrences(newErrors, valueError)

\* C15: OUT needs a top-level comma: a line whose only commas are nested in
\* parentheses or string literals carries the missing-comma error, and the
\* operands are those on either side of the first top-level comma.
C15_OutSplitsAtFirstTopLevelComma ==
    LET cleanLine == stripComments(lastLine)
        keyword == lastTokens[1]
        after == keyword.index + keyword.length
        comma == findTopLevelComma(cleanLine, after)
        v == trim(slice(cleanLine, comma + 1, Len(cleanLine)))
    IN  (/\ aLineWasWalked
         /\ firstToken = "OUT"
         /\ trim(slice(cleanLine, after, Len(cleanLine))) # "")
            => /\ comma = -1 =>
                    newErrors = <<atKeyword("Out requires port, value (missing comma).")>>
               /\ (comma # -1 /\ isBareInteger(v) /\ integerValue(v) > 1) =>
                    occurrences(newErrors, atKeyword("Out value must be 0 or 1.")) = 1

\* C16: on "DIM name AS type * length", STRING with an integer length is
\* accepted without a diagnostic; BYTE, INTEGER, LONG and SINGLE carry "Only
\* String may use * length."; STRING with a length that is not an integer
\* carries an error.
C16_OnlyStringTakesAnIntegerLength ==
    LET star == indexOf(lastLine, "*")
        type == tokenText(lastTokens, 3)
        length == trim(slice(lastLine, star + 1, Len(lastLine)))
        isInteger == Len(length) > 0
                        /\ \A k \in 0..(Len(length) - 1) : IsDigit(CharAt(length, k))
    IN  (/\ aLineWasWalked
         /\ firstToken = "DIM"
         /\ tokenText(lastTokens, 2) = "AS"
         /\ star # -1
         /\ hasNoNesting(lastLine) /\ commasOf(lastLine) = {})
            => /\ (type = "STRING" /\ isInteger) => newErrors = <<>>
               /\ type \in {"BYTE", "INTEGER", "LONG", "SINGLE"} =>
                    \E k \in 1..Len(newErrors) :
                        newErrors[k].message = "Only String may use * length."
               /\ (type = "STRING" /\ ~isInteger) => newErrors # <<>>

\* nesting as the specification reads it: a position is inside a string
\* literal after an odd number of quotes, and inside parentheses when more
\* parentheses were opened than closed outside strings before it
insideString(text, k) ==
    Cardinality({j \in 0..(k - 1) : CharAt(text, j) = "\""}) % 2 = 1
insideParens(text, k) ==
    Cardinality({j \in 0..(k - 1) : CharAt(text, j) = "(" /\ ~insideString(text, j)})
        > Cardinality({j \in 0..(k - 1) : CharAt(text, j) = ")" /\ ~insideString(text, j)})
topLevelCommas(text) ==
    {k \in commasOf(text) : ~insideString(text, k) /\ ~insideParens(text, k)}

multipleDeclarations == atKeyword("Dim does not allow multiple declarations.")
dimErrors == SelectSeq(newErrors, LAMBDA d : slice(d.message, 0, 3) # "In ")

\* C17: a DIM line with a top-level comma before AS carries exactly one
\* diagnostic, "Dim does not allow multiple declarations.", and no other DIM
\* diagnostic; a comma nested in array parentheses or in a string literal
\* does not trigger it.
C17_OnlyTopLevelCommaIsMultipleDeclaration ==
    LET as == findIndex(lastTokens, "AS")
        commaBeforeAs ==
            as # -1 /\ \E k \in topLevelCommas(lastLine) : k < lastTokens[as + 1].index
    IN  (aLineWasWalked /\ firstToken = "DIM")
            => /\ commaBeforeAs => dimErrors = <<multipleDeclarations>>
               /\ topLevelCommas(lastLine) = {} =>
                    occurrences(newErrors, multipleDeclarations) = 0

\* a declaration whose only commas are nested, accepted after one that was
\* reported for its top-level comma
C17_Witness ==
    /\ aLineWasWalked
    /\ firstToken = "DIM"
    /\ commasOf(lastLine) # {}
    /\ topLevelCommas(lastLine) = {}
    /\ newErrors = <<>>
    /\ Len(lines) >= 2
    /\ topLevelCommas(lines[Len(lines) - 1]) # {}
    /\ diagsBefore = Len(diagnostics)
    /\ diagsBefore > 0

\* the text between the parentheses that follow a token, "" when the token
\* is not followed by a parenthesised argument
argumentOf(line, token) ==
    LET open == skipWhitespace(line, token.index + token.length)
        rest == slice(line, open + 1, Len(line))
        close == indexOf(rest, ")")
    IN  IF CharAt(line, open) = "(" /\ close # -1 THEN trim(slice(rest, 0, close)) ELSE ""

\* C18: the IN(port) check is applied to every IN token of every line,
\* whatever the first token of the line: a bare literal port above 255 is
\* reported at its IN token on block-keyword lines as on any other.
C18_InCheckedOnEveryLine ==
    aLineWasWalked
        => \A k \in 1..Len(lastTokens) :
              (/\ lastTokens[k].text = "IN"
               /\ isBareInteger(argumentOf(lastLine, lastTokens[k]))
               /\ integerValue(argumentOf(lastLine, lastTokens[k])) > 255)
                  => occurrences(newErrors,
                        Diagnostic("Error", tokenRange(lastLineNumber, lastTokens[k]),
                                   "In port must be 0 to 255.")) = 1

\* the index at which getTokens stops reading the line: the first ' or REM
\* word outside every string literal, the length of the line when none
RECURSIVE tokenizerStopFrom(_, _, _)
tokenizerStopFrom(line, i, inString) ==
    IF i >= Len(line) THEN Len(line)
    ELSE LET ch == CharAt(line, i) IN
         IF inString THEN
            IF ch = "\"" THEN
               IF CharAt(line, i + 1) = "\""
               THEN tokenizerStopFrom(line, i + 2, TRUE)
               ELSE tokenizerStopFrom(line, i + 1, FALSE)
            ELSE tokenizerStopFrom(line, i + 1, TRUE)
         ELSE IF ch = "\"" THEN tokenizerStopFrom(line, i + 1, TRUE)
         ELSE IF ch = "'" THEN i
         ELSE IF IsWordStart(ch) THEN
            LET e == wordEnd(line, i + 1) IN
            IF toUpperCase(slice(line, i, e)) = "REM" THEN i
            ELSE tokenizerStopFrom(line, e, FALSE)
         ELSE tokenizerStopFrom(line, i + 1, FALSE)

tokenizerStop(line) == tokenizerStopFrom(line, 0, FALSE)

\* C19: the comment-stripped remainder is the line cut at the first comment
\* marker outside every string literal, the point at which the tokenizer
\* stops; a ' or REM inside a string literal starts no comment, so a line
\* such as OUT "REM", 1 is checked on its full text and carries no error.
C19_StrippingCutsWhereTheTokenizerStops ==
    aLineWasWalked
        => /\ stripComments(lastLine) = slice(lastLine, 0, tokenizerStop(lastLine))
           /\ lastLine = "OUT \"REM\", 1" => newErrors = <<>>

\* the keywords that introduce a checked statement
StatementKeywords == {"OUT", "INPUT", "OUTPUT", "DEBUG", "DELAY", "DIM", "IN"}

\* C20: every diagnostic of a statement validator (OUT, INPUT, OUTPUT, DEBUG,
\* DELAY, IN, DIM) has severity Error and the range of the keyword token that
\* introduces the statement, never the range of an operand; this holds for
\* every DIM error.  (Declarations with a * length, whose diagnostics C16
\* settles, are left aside.)
C20_StatementErrorsAnchoredAtKeyword ==
    (/\ aLineWasWalked
     /\ firstToken \in StatementKeywords \ {"IN"}
     /\ indexOf(lastLine, "*") = -1)
        => \A k \in 1..Len(newDiagnostics) :
              /\ newDiagnostics[k].severity = "Error"
              /\ \E j \in 1..Len(lastTokens) :
                    /\ lastTokens[j].text \in StatementKeywords
                    /\ j > 1 => lastTokens[j].text = "IN"
                    /\ newDiagnostics[k].range = tokenRange(lastLineNumber, lastTokens[j])

\* C21: on "DELAY n" an empty remainder carries "Delay requires milliseconds
\* value."; a bare integer literal n < 0 carries "Delay value must be
\* non-negative."; a bare integer literal n >= 0 carries no diagnostic; an
\* operand that is not a bare literal is not range-checked.
C21_DelayNeedsANonNegativeLiteral ==
    LET cleanLine == stripComments(lastLine)
        keyword == lastTokens[1]
        n == trim(slice(cleanLine, keyword.index + keyword.length, Len(cleanLine)))
    IN  (aLineWasWalked /\ firstToken = "DELAY" /\ hasNoNesting(lastLine))
            => newErrors =
                 IF n = "" THEN <<atKeyword("Delay requires milliseconds value.")>>
                 ELSE IF isBareInteger(n) /\ integerValue(n) < 0
                 THEN <<atKeyword("Delay value must be non-negative.")>>
                 ELSE <<>>

\* the column of the first tab of every line, -1 when the line has none
firstTabOf ==
    [line \in Lines |->
        LET tabs == {k \in 0..(Len(line) - 1) : CharAt(line, k) = "\t"}
        IN  IF tabs = {} THEN -1 ELSE CHOOSE k \in tabs : \A j \in tabs : k <= j]

severityAndRange(d) == [severity |-> d.severity, range |-> d.range]
hygieneExpected ==
    (IF Len(lastLine) > 120
     THEN <<[severity |-> "Warning",
             range |-> makeRange(lastLineNumber, 120, Len(lastLine))]>>
     ELSE <<>>)
    \o (IF firstTabOf[lastLine] # -1
        THEN <<[severity |-> "Information",
                range |-> makeRange(lastLineNumber, firstTabOf[lastLine],
                                    firstTabOf[lastLine] + 1)]>>
        ELSE <<>>)

\* C22: every line, whatever its tokens, strings, comments and the block
\* stack, carries a Warning with range [120, length) iff it is longer than
\* 120 characters and exactly one Information at the column of its first tab
\* iff it holds a tab; both come before any block or statement diagnostic of
\* the line, which are Errors.
C22_HygieneComesFirstOnEveryLine ==
    aLineWasWalked
        => /\ Len(newDiagnostics) >= Len(hygieneExpected)
           /\ \A k \in 1..Len(newDiagnostics) :
                 IF k <= Len(hygieneExpected)
                 THEN severityAndRange(newDiagnostics[k]) = hygieneExpected[k]
                 ELSE newDiagnostics[k].severity = "Error"

\* a line of 121 characters with a tab and a stray closer: Warning, then
\* Information, then the closer's Error
C22_Witness ==
    /\ aLineWasWalked
    /\ Len(lastLine) = 121
    /\ firstTabOf[lastLine] = 4
    /\ Len(newDiagnostics) = 3
    /\ newDiagnostics[1].severity = "Warning"
    /\ newDiagnostics[2].severity = "Information"
    /\ newDiagnostics[3].severity = "Error"
    /\ \E k \in 1..(Len(lines) - 1) : Len(lines[k]) = 120

----------------------------------------------------------------------------
(* The server: passes, the text cache and hover                            *)

validatingEvent == lastEvent.kind \in {"open", "change"}

touches(line, character, k) ==
    /\ IsWordChar(CharAt(line, k))
    /\ \A j \in k..(character - 1) : IsWordChar(CharAt(line, j))
    /\ \A j \in character..k : IsWordChar(CharAt(line, j))
runAt(line, character) == {k \in 0..(Len(line) - 1) : touches(line, character, k)}
wordOfRun(line, run) ==
    LET first == CHOOSE k \in run : \A j \in run : k <= j
    IN  toUpperCase(slice(line, first, first + Cardinality(run)))

hoverExpected ==
    LET uri == lastEvent.uri
        textLines == linesOfText[latest[uri].text]
        inText == lastEvent.line >= 0 /\ lastEvent.line < Len(textLines)
        line == textLines[lastEvent.line + 1]
        inLine == lastEvent.character >= 0 /\ lastEvent.character <= Len(line)
        run == runAt(line, lastEvent.character)
    IN  IF latest[uri].cached /\ inText /\ inLine /\ run # {}
           /\ wordOfRun(line, run) \in DOMAIN HOVER_DOCS
        THEN [null |-> FALSE, kind |-> "markdown",
              value |-> HOVER_DOCS[wordOfRun(line, run)]]
        ELSE NoHover

\* C26: a hover request is answered with the documentation of a keyword iff
\* the document is cached, the position lies within a line of its most recent
\* text, and the run of identifier characters under or next to the column,
\* upper-cased, is a key of the hover table; otherwise there is no result.
\* Whether that text produced diagnostics plays no part.
C26_HoverLooksUpTheWordUnderTheCursor ==
    lastEvent.kind = "hover" => hoverResult = hoverExpected

\* a lower-case keyword found in a cached text that produced diagnostics
C26_Witness ==
    /\ lastEvent.kind = "hover"
    /\ hoverResult = [null |-> FALSE, kind |-> "markdown", value |-> HOVER_DOCS["IN"]]
    /\ Len(sentDiagnostics[lastEvent.uri]) > 0

\* the tokens of a line as the specification reads them: the runs of
\* identifier characters that start at a letter or underscore, outside every
\* string literal, before the first comment start
runStart(line, k) ==
    /\ IsWordStart(CharAt(line, k))
    /\ \A j \in 0..(k - 1) :
          (\A m \in j..(k - 1) : IsWordChar(CharAt(line, m))) => IsDigit(CharAt(line, j))
runEnd(line, k) ==
    CHOOSE e \in (k + 1)..Len(line) :
        /\ ~IsWordChar(CharAt(line, e))
        /\ \A m \in k..(e - 1) : IsWordChar(CharAt(line, m))
runText(line, k) == toUpperCase(slice(line, k, runEnd(line, k)))
commentStarts(line) ==
    {k \in 0..(Len(line) - 1) :
        /\ ~insideString(line, k)
        /\ \/ CharAt(line, k) = "'"
           \/ runStart(line, k) /\ runText(line, k) = "REM"}
commentStart(line) ==
    IF commentStarts(line) = {} THEN Len(line)
    ELSE CHOOSE k \in commentStarts(line) : \A j \in commentStarts(line) : k <= j
identifierRuns(line) ==
    {[text |-> runText(line, k), index |-> k, length |-> runEnd(line, k) - k] :
        k \in {j \in 0..(commentStart(line) - 1) :
                  runStart(line, j) /\ ~insideString(line, j)}}
tokensAreTheRuns ==
    [line \in Lines |->
        LET tokens == tokensOfLine[line] IN
        /\ {tokens[k] : k \in 1..Len(tokens)} = identifierRuns(line)
        /\ \A k \in 1..(Len(tokens) - 1) :
              tokens[k].index + tokens[k].length <= tokens[k + 1].index
        /\ \A k \in 1..Len(tokens) : tokens[k].text # "REM"]

\* C27: the tokens of a line are exactly the identifier runs outside every
\* string literal and before the first comment start, in line order; a
\* doubled quote inside a string does not close it, an unterminated string
\* runs to the end of the line, a comment starts at an apostrophe or at the
\* word REM (any case) outside a string; REM is never a token, REMARK is one.
C27_TokensAreTheRunsOutsideStringsAndComments ==
    aLineWasWalked => tokensAreTheRuns[lastLine]

\* lines with an embedded doubled quote, an unterminated string, a lower-case
\* rem, and REMARK have been tokenized
C27_Witness ==
    /\ Len(lines) >= 4
    /\ \E k \in 1..Len(lines) :
          /\ lines[k] = "t1 = \"a \"\"IF\"\" b\" NEXT"
          /\ Len(tokensOfLine[lines[k]]) = 2
    /\ \E k \in 1..Len(lines) :
          /\ lines[k] = "PRINT \"open IF ' x"
          /\ Len(tokensOfLine[lines[k]]) = 1
    /\ \E k \in 1..Len(lines) :
          /\ lines[k] = "y = 2 rem WEND \""
          /\ Len(tokensOfLine[lines[k]]) = 1
    /\ lastLine = "REMARK = 1 ' \"LOOP"
    /\ lastTokens = <<[text |-> "REMARK", index |-> 0, length |-> 6]>>

\* a diagnostic a client can show: a severity, a message, and a range on one
\* of the lines walked
wellFormed(d) ==
    /\ d.severity \in {"Error", "Warning", "Information"}
    /\ Len(d.message) > 0
    /\ d.range.start.line = d.range.end.line
    /\ d.range.start.line \in 0..(Len(lines) - 1)
    /\ 0 <= d.range.start.character
    /\ d.range.start.character <= d.range.end.character

tokensLieWithin ==
    [line \in Lines |->
        LET tokens == tokensOfLine[line] IN
        /\ DOMAIN tokens = 1..Len(tokens)
        /\ \A k \in 1..Len(tokens) :
              /\ tokens[k].index >= 0
              /\ tokens[k].length >= 1
              /\ tokens[k].index + tokens[k].length <= Len(line)]

clausesOf(tokens) ==
    LET first == tokenText(tokens, 0)
        loopIndex == findIndex(tokens, "LOOP")
    IN  IF first = "DO" /\ loopIndex # -1
        THEN <<[part |-> SubSeq(tokens, 1, loopIndex), context |-> "DO"],
               [part |-> SubSeq(tokens, loopIndex + 1, Len(tokens)), context |-> "LOOP"]>>
        ELSE IF first \in {"DO", "LOOP"}
        THEN <<[part |-> tokens, context |-> first]>>
        ELSE <<>>
clausesOfLine == [line \in Lines |-> clausesOf(tokensOfLine[line])]

mustFollow(context) ==
    formatKeyword(context) \o " While/Until must immediately follow "
        \o formatKeyword(context) \o "."
cannotUseBoth(context) == formatKeyword(context) \o " cannot use both While and Until."
requiresCondition(context) ==
    {formatKeyword(context) \o " " \o word \o " requires a condition." :
        word \in {"While", "Until"}}
clauseErrors(context) ==
    SelectSeq(newErrors, LAMBDA d :
        d.message \in {mustFollow(context), cannotUseBoth(context)}
                          \cup requiresCondition(context))
hasAfterKeyword(part, word) == \E k \in 2..Len(part) : part[k].text = word
immediateClause(part) == Len(part) >= 2 /\ part[2].text \in {"WHILE", "UNTIL"}

\* C29: for a DO or LOOP clause, a WHILE or UNTIL that appears but not right
\* after the keyword gives exactly one "While/Until must immediately follow"
\* error; a WHILE or UNTIL right after the keyword in a clause that holds both
\* words gives exactly one "cannot use both While and Until" error; a clause
\* never gives more than one clause error.
C29_OneClauseErrorPerClause ==
    aLineWasWalked =>
        \A c \in 1..Len(clausesOfLine[lastLine]) :
            LET part == clausesOfLine[lastLine][c].part
                context == clausesOfLine[lastLine][c].context
                errors == clauseErrors(context)
                appears == hasAfterKeyword(part, "WHILE") \/ hasAfterKeyword(part, "UNTIL")
                both == hasAfterKeyword(part, "WHILE") /\ hasAfterKeyword(part, "UNTIL")
            IN  /\ Len(errors) <= 1
                /\ (appears /\ ~immediateClause(part)) =>
                      Len(errors) = 1 /\ errors[1].message = mustFollow(context)
                /\ (immediateClause(part) /\ both) =>
                      Len(errors) = 1 /\ errors[1].message = cannotUseBoth(context)

\* a one-line loop whose DO clause has a misplaced UNTIL and whose LOOP clause
\* uses both words: one clause error each
C29_Witness ==
    /\ aLineWasWalked
    /\ lastLine = "DO x UNTIL y LOOP WHILE a UNTIL b"
    /\ Len(clauseErrors("DO")) = 1
    /\ clauseErrors("DO")[1].message = "Do While/Until must immediately follow Do."
    /\ Len(clauseErrors("LOOP")) = 1
    /\ clauseErrors("LOOP")[1].message = "Loop cannot use both While and Until."

\* nothing but blanks and a comment follows the token on its line
nothingFollows(line, token) ==
    trim(slice(stripComments(line), token.index + token.length, Len(line))) = ""

\* C30: a clause error on a DO or LOOP line leaves block tracking alone: the
\* DO line still opens its DO frame and gives no other error, the LOOP line
\* still closes the nearest open DO.
C30_ClauseErrorKeepsBlockTracking ==
    (/\ aLineWasWalked
     /\ Len(clausesOfLine[lastLine]) = 1
     /\ Len(clauseErrors(firstToken)) >= 1
     /\ clauseErrors(firstToken)[1].message \in requiresCondition(firstToken) =>
            nothingFollows(lastLine, lastTokens[Len(lastTokens)]))
        => IF firstToken = "DO"
           THEN /\ Len(stack) = Len(stackBefore) + 1
                /\ SubSeq(stack, 1, Len(stackBefore)) = stackBefore
                /\ topOf(stack).type = "DO"
                /\ topOf(stack).line = lastLineNumber
                /\ newErrors = clauseErrors("DO")
           ELSE Nearest(stackBefore, "DO") # 0 =>
                   stack = SubSeq(stackBefore, 1, Nearest(stackBefore, "DO") - 1)

----------------------------------------------------------------------------
(* The extension: generated files                                          *)

quiescent == ~transpileTimer.set /\ writing = {}

\* C28: once no timer is pending and no write is in flight, the sibling .py
\* of every eligible document that changed holds the transpilation of its
\* most recent text, whatever other documents changed in between.
C28_GeneratedFileFollowsTheLatestText ==
    quiescent =>
        \A document \in Eligible :
            latestText[document.path] # "" =>
                files[pyPath(document.path)]
                    = transpileBasToPython(latestText[document.path], document.path)

\* what a token keeps of its line
tokensKeepTheirOffsets ==
    [line \in Lines |->
        LET tokens == tokensOfLine[line] IN
        /\ \A k \in 1..Len(tokens) :
              /\ tokens[k].length >= 1
              /\ tokens[k].text
                   = toUpperCase(slice(line, tokens[k].index,
                                       tokens[k].index + tokens[k].length))
              /\ IsWordStart(CharAt(line, tokens[k].index))
        /\ \A k \in 1..(Len(tokens) - 1) :
              tokens[k].index + tokens[k].length <= tokens[k + 1].index]

\* the diagnostic's range is the range of a token of its line
anchoredAtToken(d) ==
    /\ d.range.start.line < Len(lines)
    /\ \E k \in 1..Len(tokensOfLine[lines[d.range.start.line + 1]]) :
          d.range = tokenRange(d.range.start.line,
                               tokensOfLine[lines[d.range.start.line + 1]][k])
withinItsLine(d) ==
    /\ d.range.start.line = d.range.end.line
    /\ d.range.start.character >= 0
    /\ d.range.start.character < d.range.end.character
    /\ d.range.end.character <= Len(lines[d.range.start.line + 1])

\* C31: every token's text is the upper-cased substring of its line at
\* [index, index + length), its length is at least 1, its first character is
\* a letter or underscore, and tokens come in strictly increasing offsets
\* without overlap; so every Error whose range is a token's range lies within
\* its line.
C31_TokensKeepTheirOffsets ==
    aLineWasWalked =>
        /\ tokensKeepTheirOffsets[lastLine]
        /\ \A k \in 1..Len(newErrors) :
              anchoredAtToken(newErrors[k]) => withinItsLine(newErrors[k])

\* a lower-case closer at the very end of an indented line was reported at
\* its own columns
C31_Witness ==
    /\ aLineWasWalked
    /\ lastLine = "  End Sub"
    /\ lastTokens = <<[text |-> "END", index |-> 2, length |-> 3],
                      [text |-> "SUB", index |-> 6, length |-> 3]>>
    /\ \E k \in 1..Len(newErrors) :
          /\ anchoredAtToken(newErrors[k])
          /\ newErrors[k].range.start.character = 2

----------------------------------------------------------------------------
(* The debug adapter: framing                                               *)

PauseFrame ==
    "content-length:" \o toDigits(Len(Pause)) \o "\r\nContent-Type: json\r\n\r\n" \o Pause

\* the bytes of the first k frames written
RECURSIVE bytesUpTo(_)
bytesUpTo(k) ==
    IF k = 0 THEN 0 ELSE bytesUpTo(k - 1) + Len(adapterLog.written[k])

\* the bytes the pipe has delivered
bytesDelivered == bytesUpTo(Len(adapterLog.written)) - Len(process.stdin)

\* what a frame must produce once it has arrived whole, sequence numbers aside
producedBy(frame) ==
    CASE frame = framed(Threads) ->
            <<[NoMessage EXCEPT !.type = "response", !.request_seq = 1,
                                !.success = TRUE, !.command = "threads"]>>
      [] frame = PauseFrame ->
            <<[NoMessage EXCEPT !.type = "response", !.request_seq = 2,
                                !.success = TRUE, !.command = "pause"],
              [NoMessage EXCEPT !.type = "event", !.event = "stopped"]>>
      [] frame = framed(Broken) ->
            <<[NoMessage EXCEPT !.type = "event", !.event = "output",
                                !.category = "stderr",
                                !.output = "Failed to parse request: Unexpected end of JSON input\n"]>>
      [] OTHER -> <<>>

requestOf(frame) ==
    CASE frame = framed(Threads) -> <<Request(1, "threads", NoArguments)>>
      [] frame = PauseFrame -> <<Request(2, "pause", NoArguments)>>
      [] OTHER -> <<>>

\* the output and the dispatches owed for the first k frames written, given
\* the bytes delivered
RECURSIVE owedOutput(_)
owedOutput(k) ==
    IF k = 0 THEN <<>>
    ELSE owedOutput(k - 1) \o
         (IF bytesUpTo(k) <= bytesDelivered THEN producedBy(adapterLog.written[k])
          ELSE <<>>)

RECURSIVE owedDispatches(_)
owedDispatches(k) ==
    IF k = 0 THEN <<>>
    ELSE owedDispatches(k - 1) \o
         (IF bytesUpTo(k) <= bytesDelivered THEN requestOf(adapterLog.written[k])
          ELSE <<>>)

\* C32: however stdin is cut into chunks, the requests dispatched are exactly
\* the Content-Length-framed messages that have arrived whole, once each and
\* in the order written; a message whose body is incomplete is not dispatched,
\* a header block without Content-Length produces nothing, and a body that is
\* not JSON produces one stderr output event and does not stop the messages
\* after it.
C32_FramingIgnoresChunking ==
    /\ adapterLog.handled = owedDispatches(Len(adapterLog.written))
    /\ [i \in 1..Len(process.stdout) |-> [process.stdout[i] EXCEPT !.seq = 0]]
          = owedOutput(Len(adapterLog.written))
    /\ \A i \in 1..Len(process.stdout) : process.stdout[i].seq = i

\* a request that arrived in more than one chunk is dispatched after a body
\* that was not JSON
C32_Witness ==
    /\ adapterLog.written = <<framed(Broken), PauseFrame>>
    /\ adapterLog.last = "data"
    /\ adapterLog.carried > 0
    /\ adapterLog.handled = <<Request(2, "pause", NoArguments)>>
    /\ Len(process.stdout) = 3
    /\ process.stdout[1].category = "stderr"

----------------------------------------------------------------------------
(* The debug adapter: sessions, stop and exit                               *)

\* how often the stop command was spawned for a session (0 is no session)
stopsOf(id) ==
    Cardinality({i \in 1..Len(adapterLog.stops) : adapterLog.stops[i] = id})

\* C34: however terminate and disconnect requests for a launched session
\* interleave, also when one arrives while the stop command of an earlier one
\* is still running, the stop command is spawned at most once for the session
\* and at most one exit timer is ever scheduled.  Stated for the runs with one
\* launch, one terminate and one disconnect at most.
C34_StopSpawnedOncePerSession ==
    (\A i, j \in 1..Len(adapterLog.handled) :
        (adapterLog.handled[i] = adapterLog.handled[j]) => (i = j))
    =>  /\ \A i \in 1..Len(adapterLog.sessionAt) :
               stopsOf(adapterLog.sessionAt[i]) <= 1
        /\ adapterLog.exitTimers <= 1

isStopRequest(request) == request.command \in {"disconnect", "terminate"}

isStopResponse(message) ==
    message.type = "response" /\ message.command \in {"disconnect", "terminate"}

isTerminated(message) == message.type = "event" /\ message.event = "terminated"

\* the disconnect and terminate requests dispatched so far, as positions in
\* the order of dispatch
stopRequests == {h \in 1..Len(adapterLog.handled) : isStopRequest(adapterLog.handled[h])}

stopResponses == {i \in 1..Len(process.stdout) : isStopResponse(process.stdout[i])}

stopsRunning == {child \in process.children : child.kind = "stop"}

\* stdout[Len - back]
fromEnd(back) == process.stdout[Len(process.stdout) - back]

\* C33: a disconnect or terminate request dispatched while a session is
\* active spawns the stop command, one dispatched with no session spawns
\* nothing; its response is not sent while its stop command is running and is
\* sent, with success, once it has settled or at once when there was nothing
\* to stop; a failed stop adds a stderr output event in front of the response
\* and nothing else; every such response is directly followed by one
\* 'terminated' event, with the exit timer scheduled; and when a stop command
\* has settled no session is active.
C33_StopThenRespondThenTerminate ==
    /\ Len(adapterLog.stops)
          = Cardinality({h \in stopRequests : adapterLog.sessionAt[h] # 0})
    /\ Cardinality(stopResponses)
          = Cardinality(stopRequests) - Cardinality(stopsRunning)
    /\ \A i \in stopResponses :
          /\ process.stdout[i].success
          /\ i < Len(process.stdout)
          /\ isTerminated(process.stdout[i + 1])
          /\ (i + 2 <= Len(process.stdout)) => ~isTerminated(process.stdout[i + 2])
          /\ adapter.terminateTimer
    /\ adapterLog.last \in {"stop 0", "stop 1", "stop error"} =>
          /\ adapter.currentSession.null
          /\ isTerminated(fromEnd(0))
          /\ isStopResponse(fromEnd(1))
    /\ adapterLog.last \in {"stop 1", "stop error"} =>
          /\ fromEnd(2).event = "output" /\ fromEnd(2).category = "stderr"
          /\ fromEnd(2).output \in
                {"mpremote exited with code 1.\n",
                 "Failed to start mpremote: spawn mpremote ENOENT. Set 'mpremotePath' if it's not on PATH.\n"}

\* the stop command of a terminate request failed: stderr output, then the
\* response, then 'terminated'
C33_Witness ==
    /\ adapterLog.last = "stop 1"
    /\ adapterLog.handled = <<Parsed[Launch], Parsed[Terminate]>>
    /\ adapterLog.stops = <<1>>
    /\ fromEnd(2).category = "stderr"
    /\ fromEnd(1).command = "terminate" /\ fromEnd(1).success
    /\ isTerminated(fromEnd(0))
    /\ adapter.terminateTimer /\ adapter.currentSession.null

----------------------------------------------------------------------------
(* The debug adapter: launch                                                *)

\* the position on stdout of the k-th response
responseAt(k) ==
    CHOOSE i \in 1..Len(process.stdout) :
        /\ process.stdout[i].type = "response"
        /\ Cardinality({j \in 1..i : process.stdout[j].type = "response"}) = k

\* the session that was active once the k-th request had been handled (in the
\* launch model nothing but a launch changes it)
sessionAfter(k) ==
    IF k < Len(adapterLog.sessionAt) THEN adapterLog.sessionAt[k + 1]
    ELSE adapter.currentSession.id

isStderr(message, text) ==
    /\ message.type = "event" /\ message.event = "output"
    /\ message.category = "stderr" /\ message.output = text \o "\n"

\* the k-th request was refused: the error on stderr, one response with
\* success = false and the message, 'terminated', the exit timer, the session
\* as it was, and none of the events of a started launch
refusedLaunch(k, text) ==
    LET at == responseAt(k) IN
    /\ ~process.stdout[at].success
    /\ process.stdout[at].message = text
    /\ process.stdout[at].request_seq = adapterLog.handled[k].seq
    /\ at > 1 /\ isStderr(process.stdout[at - 1], text)
    /\ at < Len(process.stdout) /\ isTerminated(process.stdout[at + 1])
    /\ (at + 2 <= Len(process.stdout)) =>
          process.stdout[at + 2].event \notin {"process", "thread", "continued"}
    /\ adapter.terminateTimer
    /\ sessionAfter(k) = adapterLog.sessionAt[k]

\* the k-th request was accepted: a success response, then the process,
\* thread and continued events, and its own session
acceptedLaunch(k) ==
    LET at == responseAt(k) IN
    /\ process.stdout[at].success
    /\ process.stdout[at].request_seq = adapterLog.handled[k].seq
    /\ at + 3 <= Len(process.stdout)
    /\ process.stdout[at + 1].event = "process"
    /\ process.stdout[at + 2].event = "thread"
    /\ process.stdout[at + 3].event = "continued"
    /\ sessionAfter(k) = k

\* one response for every launch request, uploads for the accepted ones only
\* and known only after the response, and a failed upload reported by stderr
\* output and 'terminated' with the exit timer set
uploadsFollowResponses ==
    /\ Cardinality({i \in 1..Len(process.stdout) : process.stdout[i].type = "response"})
          = Len(adapterLog.handled)
    /\ adapterLog.spawned
          = Cardinality({i \in 1..Len(process.stdout) :
                            process.stdout[i].type = "response" /\ process.stdout[i].success})
    /\ adapterLog.spawned
          = Cardinality({i \in 1..Len(process.stdout) : process.stdout[i].event = "process"})
    /\ \A child \in process.children :
          child.kind = "upload" /\ process.stdout[responseAt(child.session)].success
    /\ adapterLog.last \in {"upload 1", "upload error"} =>
          /\ isTerminated(fromEnd(0))
          /\ \/ isStderr(fromEnd(1), "mpremote exited with code 1.")
             \/ isStderr(fromEnd(1), "Failed to start mpremote: spawn mpremote ENOENT. Set 'mpremotePath' if it's not on PATH.")
          /\ adapter.terminateTimer

hasValidArguments(request) ==
    /\ request.arguments.isObject
    /\ request.arguments.serialPort # ""
    /\ request.arguments.program # ""

refusedForItsArguments(k) ==
    LET request == adapterLog.handled[k] IN
    CASE ~request.arguments.isObject -> refusedLaunch(k, "Missing launch configuration.")
      [] request.arguments.serialPort = "" ->
            refusedLaunch(k, "Launch configuration requires a 'serialPort' string.")
      [] OTHER -> refusedLaunch(k, "Launch configuration requires a 'program' path.")

=============================================================================
